---------------------------- MODULE Spec2Model ----------------------------
(***************************************************************************)
(* Verification model of the PCS simulator / GOOSE gateway.                *)
(*                                                                         *)
(* Each subsystem has a specification of its own over the same variables   *)
(* (the variables of the other subsystems keep their initial values):      *)
(*                                                                         *)
(*   Spec     the retransmit scheduler (threads/retransmit.rs), its        *)
(*            RetransmitSignal (threads/retransmit_signal.rs) and the PLC  *)
(*            ingestion that writes the shared frames                      *)
(*            (StPlcCmdAll::assign_to_goose_frame, threads/publisher.rs);  *)
(*   SpecFair Spec with the retransmit thread scheduled fairly;            *)
(*   SpecPcs  one PCS record of one LAN (pcs/types.rs): update_from_goose, *)
(*            validate_goose_sequence, is_data_valid,                      *)
(*            check_and_update_validity, and the validity sweeper          *)
(*            (threads/validity.rs);                                       *)
(*   SpecPms  the PMS command worker's freshness test                      *)
(*            (threads/pms_command_rx.rs);                                 *)
(*   SpecPool the receive buffer pool (goose/buffer_pool.rs);              *)
(*   SpecSig  one RetransmitSignal with a waiter and its signallers;       *)
(*   SpecMain run() of main.rs, the threads it spawns and its shutdown;    *)
(*   SpecPub  spawn_publisher_thread of main.rs and the GOOSE sender       *)
(*            thread (threads/pcs_publisher.rs);                           *)
(*   SpecPlc  the PLC datagram functions of threads/publisher.rs:          *)
(*            deserialize_stplccmdall, init_publisher_goose_frames,        *)
(*            parse_mac, assign_to_goose_frame;                            *)
(*   SpecExt  extract_and_apply_commands on one PCS record (pcs/types.rs); *)
(*   SpecLc   get_stpcsimage and the global LIFECOUNTER (plc/com.rs);      *)
(*   SpecNm   load_nameplates_from_csv (pcs/nameplate.rs);                 *)
(*   SpecIgr  the ingress pipeline: receivers, buffer pool, dispatch       *)
(*            channel, workers (main.rs, threads/worker.rs);               *)
(*   SpecCmd  a worker's command frame and the update signal               *)
(*            (threads/worker.rs, main.rs);                                *)
(*   SpecLan  a command frame and the records of the two LAN stores        *)
(*            (threads/worker.rs);                                         *)
(*   SpecTtl  timeAllowedToLive of the frames of both schedulers against   *)
(*            the next retransmit interval;                                *)
(*   SpecHd   the retransmit thread's hand-off of frames under the frames  *)
(*            lock (threads/retransmit.rs);                                *)
(*   SpecPsn  a tick of the retransmit thread on a poisoned frames lock;   *)
(*   SpecGi   StPCSinfo::get_info (plc/types.rs);                          *)
(*   SpecCo   the retransmit thread return by return of wait_timeout;      *)
(*   SpecIso  spawn_publisher_thread run with and without the updates of   *)
(*            one PCS record;                                              *)
(*   SpecDq   the ingress pipeline with the channel twice the pool.        *)
(*                                                                         *)
(* u32 counters: TLC's integers end at 2^31 - 1, so 2^32 cannot be         *)
(* written.  Every counter starts at 0 (init_publisher_goose_frames) and   *)
(* the bounds below keep it small, so wrapping_add never wraps in a        *)
(* checked state; it is modelled as + 1.                                   *)
(***************************************************************************)
EXTENDS Integers, Sequences, FiniteSets, TLC

(***************************************************************************)
(* Bounds of the model (not program constants).                            *)
(***************************************************************************)
\* number of publisher frames in the shared frame set
NumFrames == 2
\* signal_reset calls in one behaviour
MaxSignals == 2
\* timeout retransmissions are explored while every sqNum is below this
MaxSq == 14
\* worker threads of the pool that serves one LAN
NumWorkers == 2
\* frames the remote publisher of the PCS sends in one behaviour
MaxSent == 4
\* steps of the clock of the PCS record
MaxTicks == 6
\* steps of the clock of the PMS command worker
MaxPmsTicks == 2
\* buffers the pool is created with (BufferPool::new(capacity))
PoolCapacity == 2
\* places a PooledBuffer handle can live in, over all threads
NumSlots == 3
\* longest data a borrower writes into a buffer
MaxLen == 2
\* longest timeout (ms) handed to a wait on the lone RetransmitSignal
MaxWait == 2
\* signal_reset and wait_timeout calls on the lone RetransmitSignal
MaxCalls == 6
\* capacity of the packet channel of run() (bounded(16384) in the program)
ChanCap == 2
\* PCS units that have a frame in spawn_publisher_thread
NumPcs == 2
\* ms the clock of spawn_publisher_thread runs for
MaxPubTime == 3
\* data updates the PCS records receive in one behaviour
MaxUpdates == 2
\* most commands a generated PLC datagram carries
MaxCmds == 2
\* most configs a generated publisher configuration list holds
MaxConfigs == 2
\* most PCS units one PMS command frame controls (total_pcs_count)
MaxPcsCount == 2
\* command frames stored and extracted in one behaviour
MaxExtractions == 2
\* threads that call get_stpcsimage concurrently
NumCallers == 3
\* images produced in one behaviour
MaxImages == 4
\* rows of the nameplate CSV file
MaxRows == 3
\* capacity of the dispatch channel of the ingress pipeline; the case of a
\* full channel needs it below the pool's capacity
IngressChanCap == 1
\* capacity of the channel from the retransmit thread to the GOOSE sender
HandChanCap == 3
\* entries of the allData that get_info reads
MaxInfoLen == 2

(***************************************************************************)
(* Program constants.                                                      *)
(***************************************************************************)
\* retransmit.rs:36
MAX_INTERVAL_MS == 5000
\* retransmit.rs:37
INITIAL_INTERVAL_MS == 2
\* retransmit.rs:51, the timeout of each startup wait
STARTUP_WAIT_MS == 100
\* publisher.rs:628, allData entries per PCS (2 booleans + 2 floats)
ENTRIES_PER_PCS == 4
\* pcs/types.rs:152, the grace added to twice the time allowed to live (ms)
GRACE_MS == 5000
\* pcs/types.rs:406 and 463, the timeout of a record without invaliditytime
FALLBACK_TIMEOUT_MS == 10000
\* pms_command_rx.rs:105
RESTART_THRESHOLD == 100
\* publisher.rs:89
HEADER_SIZE == 27
\* publisher.rs:90
PCS_CMD_SIZE == 27
\* publisher.rs:116
PLC_PROTOCOL == 20
\* threads/publisher.rs:531: timeAllowedtoLive of a frame of the shared frame set
PLC_FRAME_TTL_MS == 5000

\* pcs/publisher.rs:140: timeAllowedtoLive of a per-PCS frame
PCS_FRAME_TTL_MS == 5000
\* plc/types.rs:262
INVALID_VALUE == 999999

VARIABLES
    \* ---- shared state of the retransmit scheduler ----
    frames,                 \* Arc<RwLock<Vec<(EthernetHeader, IECGoosePdu)>>>
    reset,                  \* RetransmitSignal.mutex: the signal flag
    stop_signal,            \* Arc<AtomicBool>
    \* ---- the retransmit thread ----
    rt_pc,                  \* its position
    current_interval_ms,
    is_first_transmission,
    reset_by_new_data,
    sleep_target_ms,        \* timeout handed to the wait of this iteration
    frame_idx,              \* frame the burst is at (frames lock held)
    \* ---- the PLC ingester ----
    plc_pc,
    \* ---- observations (not program state) ----
    lastEmit,               \* per frame: (stNum, sqNum) last sent on goose_tx
    prevEmit,               \* per frame: the emission before lastEmit
    sigSinceEmit,           \* per frame: signal_reset called since its last emission
    afterSignal,            \* per frame: lastEmit was the first emission after a signal_reset
    everSignalled,          \* signal_reset has been called
    stopBeforeSignal,       \* stop_signal was set before the first signal_reset
    nSignals,               \* signal_reset calls so far
    kSince,                 \* per frame: emissions since its last state-change emission
    disturbed,              \* per frame: PLC ingestion touched it since that emission
    waitBefore,             \* per frame: timeout of the wait before lastEmit
    stAtChange,             \* per frame: stNum of its last state-change emission
    waitsAfterStop,         \* waits that completed since stop_signal was set (capped at 2)
    emitAfterStopWait,      \* a frame was emitted after such a wait
    \* ---- one PCS record of one LAN, its feed and its sweeper ----
    pcs,                    \* SubscriberPCSData
    now,                    \* SystemTime::now(), in ms
    held,                   \* per worker: the decoded PDU it is about to apply
    sndSt, sndSq,           \* (stNum, sqNum) of the last frame the remote publisher sent
    nSent,                  \* frames the remote publisher has sent
    became_invalid,         \* the last sweep listed the record as newly invalid
    reports,                \* times it was listed since its last update
    sweptAfterDeadline,     \* a sweep ran at or after its deadline since its last update
    validAtUpdate,          \* state_valid as its last update left it
    \* ---- the PMS command worker ----
    pms_subscribers,        \* DashMap<u16, PmsGooseCmdSubscriber>
    pms_now,                \* SystemTime::now() of the worker
    pms_last,               \* observation: the last frame handled, and the entry before it
    \* ---- the receive buffer pool ----
    queue,                  \* BufferPool.queue: ArrayQueue<Vec<u8>>
    handles,                \* per handle slot: the PooledBuffer in it, if any
    acq,                    \* observation: the last step if it was an acquire()
    written,                \* observation: buffers a borrower has written data into
    \* ---- a RetransmitSignal with one waiter and its signallers ----
    sig_flag,               \* RetransmitSignal.mutex: the bool it guards
    waiter_pc,              \* the waiter: "idle", "blocked" (in the condvar) or "woken"
    wait_left,              \* ms of the timeout of the current wait not yet elapsed
    wait_result,            \* what the last wait_timeout returned
    unconsumed,             \* observation: a signal_reset no wait has consumed yet
    nCalls,                 \* observation: signal_reset and wait_timeout calls so far
    \* ---- run() of main.rs and the threads it spawns ----
    main_pc,                \* "parked", "joining" or "returned"
    join_idx,               \* index in `handles` of the join the main thread is in
    senders,                \* holders of a Sender of the packet channel
    chan,                   \* packets in the packet channel
    rcv_pc,                 \* per LAN receiver: "next" (in rx.next()) or "done"
    wk_pc,                  \* per worker: "recv", "busy" or "done"
    val_pc,                 \* validity sweeper: "sleep" or "check"
    pub_pc,                 \* publisher: "process" or "wait"
    \* ---- spawn_publisher_thread of main.rs and the GOOSE sender thread ----
    goose_frames,           \* HashMap<u16, FrameMetadata>
    rec_last_update,        \* per PCS record: last_update (a SystemTime), or NoTime
    stamp,                  \* the last value SystemTime::now() returned
    pub_now,                \* Instant::now(), in ms
    pb_pc,                  \* the thread: "spawn", "process" (top of the loop) or "wait"
    min_wait_time,          \* timeout of the wait the thread is in
    wait_start,             \* when that wait began
    tx_present,             \* per LAN: the transmitter is Some
    lan_log,                \* observation: the sends of one frame of the last pass
    pendingUpd,             \* observation, per PCS: updated since its last frame
    nUpd,                   \* observation: data updates so far
    gs_pc,                  \* the GOOSE sender thread: "none", "recv" or "stopped"
    gs_log,                 \* observation: the sends of the last frame it received
    \* ---- the PLC datagram functions of threads/publisher.rs ----
    ing_pc,                 \* "start", "inited", "received" or "assigned"
    plc_configs,            \* the publisher configs init_publisher_goose_frames was given
    plc_init,               \* what init_publisher_goose_frames returned for them
    plc_dgram,              \* the last datagram received, a sequence of bytes
    plc_result,             \* what deserialize_stplccmdall returned for it
    plc_frames,             \* the frames, as assign_to_goose_frame left them
    \* ---- command extraction on one PCS record (pcs/types.rs) ----
    ext_rec,                \* the record: stored allData, enables and feedbacks
    ext_pc,                 \* "idle", "stored" (a frame was stored) or "applied"
    ext_call,               \* observation: the last extraction, its arguments and result
    nExt,                   \* observation: frames stored so far
    \* ---- PLC image lifecounter (plc/com.rs) ----
    LIFECOUNTER,            \* the global atomic counter
    lc_pc,                  \* per caller: "idle" or "building" (inside get_stpcsimage)
    lc_started,             \* per caller: images completed when its call began
    lc_images,              \* observation: the images produced, in completion order
    \* ---- nameplate CSV loader (pcs/nameplate.rs) ----
    nm_configs,                \* the rows loaded so far, in order
    seen_goose,             \* goose_appid strings of the loaded rows
    seen_logical,           \* logical_id values of the loaded rows
    nRows,                  \* rows read so far
    nm_last,                \* observation: the last row read and whether it was loaded
    \* ---- ingress pipeline: receivers, pool, channel, workers (main.rs) ----
    igr_pool,               \* BufferPool.queue
    igr_chan,               \* the dispatch channel: (lan_id, PacketData) messages
    igr_rcv,                \* per LAN receiver: position and the buffer in its hands
    igr_wk,                 \* per worker: position and the buffer in its hands
    igr_last,               \* observation: the last step and the state before it
    \* ---- worker command frames and the update signal (worker.rs, main.rs) ----
    cmd_rec,                \* the PCS record the command frames address
    cmd_signal,             \* update_signal: the flag of the RetransmitSignal
    cmd_last,               \* observation: the last step, and whether it changed the record
    \* ---- the two LAN stores of one PCS under command frames (worker.rs) ----
    lan_rec,                \* per LAN: the record of the PCS (pcs_all_lan1 / pcs_all_lan2)
    lan_last,               \* observation: the last frame, its LAN, whether it was accepted, frames so far
    \* ---- backoff of the two schedulers against timeAllowedtoLive ----
    ttl_rt,                 \* retransmit thread: current_interval_ms
    ttl_md,                 \* publisher thread: the FrameMetadata of one PCS
    ttl_emit,               \* observation: the last frame emitted, its TTL and the interval to its successor
    \* ---- frames lock and hand-off to the GOOSE sender (retransmit.rs) ----
    hd_lock,                \* frames RwLock: "free", or its writer "retransmit" / "plc"
    hd_rt,                  \* retransmit thread: position and frame of the burst
    hd_chan,                \* encoded frames queued in goose_tx
    hd_sender,              \* GOOSE sender thread: "running" or "stalled" in a socket send
    hd_plc,                 \* PLC ingester: "idle" or "waiting" for the frames lock
    hd_last,                \* observation: the last step, whether the retransmit thread held the lock, frames queued
    \* ---- scheduler ticks over a poisoned frames lock (retransmit.rs) ----
    psn_frames,             \* the shared frames: stNum and sqNum of each
    psn_interval,           \* current_interval_ms
    psn_poisoned,           \* the RwLock is poisoned: a writer panicked
    psn_last,               \* observation: the last tick, the state before it and what it sent
    gi_sub,         \* the subscriber record get_info reads
    gi_info,        \* the StPCSinfo that get_info fills
    gi_in,          \* the arguments of the last call of get_info
    co_reset,       \* the flag of the RetransmitSignal
    co_pc,          \* where the retransmit thread is
    co_first,       \* is_first_transmission
    co_rbnd,        \* reset_by_new_data
    co_frames,      \* the frames
    co_calls,       \* signal_reset calls so far
    co_sigs,        \* signal_reset calls since wait_timeout last returned
    co_last,        \* the last return of wait_timeout
    co_done,        \* the return before it, and what followed it
    iso_real,       \* the FrameMetadata of the publisher thread
    iso_shadow,     \* the same thread where the record of PCS 1 gets no update
    iso_rlu,        \* last_update of each PCS record
    iso_srlu,       \* last_update of each PCS record without the updates of PCS 1
    iso_now,        \* Instant::now(), ms
    iso_stamp,      \* SystemTime::now(), a counter
    iso_nupd,       \* updates so far
    dq_pool,        \* the queue of the buffer pool
    dq_chan,        \* the dispatch channel
    dq_rcv,         \* what each LAN receiver holds
    dq_wk,          \* what each worker holds
    dq_last         \* the last step of the pipeline

rtVars == <<rt_pc, current_interval_ms, is_first_transmission, reset_by_new_data,
            sleep_target_ms, frame_idx>>
obsVars == <<lastEmit, prevEmit, sigSinceEmit, afterSignal, everSignalled,
             stopBeforeSignal, nSignals, kSince, disturbed, waitBefore, stAtChange>>
stopObs == <<waitsAfterStop, emitAfterStopWait>>
schedVars == <<frames, reset, stop_signal, rtVars, plc_pc, obsVars, stopObs>>
pcsVars == <<pcs, now, held, sndSt, sndSq, nSent, became_invalid, reports,
             sweptAfterDeadline, validAtUpdate>>
pmsVars == <<pms_subscribers, pms_now, pms_last>>
poolVars == <<queue, handles, acq, written>>
sigVars == <<sig_flag, waiter_pc, wait_left, wait_result, unconsumed, nCalls>>
mainVars == <<main_pc, join_idx, senders, chan, rcv_pc, wk_pc, val_pc, pub_pc>>
pubVars == <<goose_frames, rec_last_update, stamp, pub_now, pb_pc, min_wait_time,
             wait_start, tx_present, lan_log, pendingUpd, nUpd>>
gsVars == <<gs_pc, gs_log>>
plcVars == <<ing_pc, plc_configs, plc_init, plc_dgram, plc_result, plc_frames>>
extVars == <<ext_rec, ext_pc, ext_call, nExt>>
lcVars == <<LIFECOUNTER, lc_pc, lc_started, lc_images>>
nmVars == <<nm_configs, seen_goose, seen_logical, nRows, nm_last>>
igrVars == <<igr_pool, igr_chan, igr_rcv, igr_wk, igr_last>>
cmdVars == <<cmd_rec, cmd_signal, cmd_last>>
lanVars == <<lan_rec, lan_last>>
ttlVars == <<ttl_rt, ttl_md, ttl_emit>>
hdVars == <<hd_lock, hd_rt, hd_chan, hd_sender, hd_plc, hd_last>>
psnVars == <<psn_frames, psn_interval, psn_poisoned, psn_last>>
giVars == <<gi_sub, gi_info, gi_in>>
coVars == <<co_reset, co_pc, co_first, co_rbnd, co_frames, co_calls, co_sigs, co_last, co_done>>
isoVars == <<iso_real, iso_shadow, iso_rlu, iso_srlu, iso_now, iso_stamp, iso_nupd>>
dqVars == <<dq_pool, dq_chan, dq_rcv, dq_wk, dq_last>>
vars == <<schedVars, pcsVars, pmsVars, poolVars, sigVars, mainVars, pubVars, gsVars, plcVars, extVars, lcVars, nmVars, igrVars, cmdVars, lanVars, ttlVars, hdVars, psnVars, giVars, coVars, isoVars, dqVars>>

\* what the steps of one subsystem leave alone
notSched == <<pcsVars, pmsVars, poolVars, sigVars, mainVars, pubVars, gsVars, plcVars, extVars, lcVars, nmVars, igrVars, cmdVars, lanVars, ttlVars, hdVars, psnVars, giVars, coVars, isoVars, dqVars>>
notPcs == <<schedVars, pmsVars, poolVars, sigVars, mainVars, pubVars, gsVars, plcVars, extVars, lcVars, nmVars, igrVars, cmdVars, lanVars, ttlVars, hdVars, psnVars, giVars, coVars, isoVars, dqVars>>
notPms == <<schedVars, pcsVars, poolVars, sigVars, mainVars, pubVars, gsVars, plcVars, extVars, lcVars, nmVars, igrVars, cmdVars, lanVars, ttlVars, hdVars, psnVars, giVars, coVars, isoVars, dqVars>>
notPool == <<schedVars, pcsVars, pmsVars, sigVars, mainVars, pubVars, gsVars, plcVars, extVars, lcVars, nmVars, igrVars, cmdVars, lanVars, ttlVars, hdVars, psnVars, giVars, coVars, isoVars, dqVars>>
notSig == <<schedVars, pcsVars, pmsVars, poolVars, mainVars, pubVars, gsVars, plcVars, extVars, lcVars, nmVars, igrVars, cmdVars, lanVars, ttlVars, hdVars, psnVars, giVars, coVars, isoVars, dqVars>>
notMain == <<schedVars, pcsVars, pmsVars, poolVars, sigVars, pubVars, gsVars, plcVars, extVars, lcVars, nmVars, igrVars, cmdVars, lanVars, ttlVars, hdVars, psnVars, giVars, coVars, isoVars, dqVars>>
notPub == <<schedVars, pcsVars, pmsVars, poolVars, sigVars, mainVars, plcVars, extVars, lcVars, nmVars, igrVars, cmdVars, lanVars, ttlVars, hdVars, psnVars, giVars, coVars, isoVars, dqVars>>
notPlc == <<schedVars, pcsVars, pmsVars, poolVars, sigVars, mainVars, pubVars, gsVars, extVars, lcVars, nmVars, igrVars, cmdVars, lanVars, ttlVars, hdVars, psnVars, giVars, coVars, isoVars, dqVars>>
notExt == <<schedVars, pcsVars, pmsVars, poolVars, sigVars, mainVars, pubVars, gsVars, plcVars, lcVars, nmVars, igrVars, cmdVars, lanVars, ttlVars, hdVars, psnVars, giVars, coVars, isoVars, dqVars>>
notLc == <<schedVars, pcsVars, pmsVars, poolVars, sigVars, mainVars, pubVars, gsVars, plcVars, extVars, nmVars, igrVars, cmdVars, lanVars, ttlVars, hdVars, psnVars, giVars, coVars, isoVars, dqVars>>
notNm == <<schedVars, pcsVars, pmsVars, poolVars, sigVars, mainVars, pubVars, gsVars, plcVars, extVars, lcVars, igrVars, cmdVars, lanVars, ttlVars, hdVars, psnVars, giVars, coVars, isoVars, dqVars>>
notIgr == <<schedVars, pcsVars, pmsVars, poolVars, sigVars, mainVars, pubVars, gsVars, plcVars, extVars, lcVars, nmVars, cmdVars, lanVars, ttlVars, hdVars, psnVars, giVars, coVars, isoVars, dqVars>>
notCmd == <<schedVars, pcsVars, pmsVars, poolVars, sigVars, mainVars, pubVars, gsVars, plcVars, extVars, lcVars, nmVars, igrVars, lanVars, ttlVars, hdVars, psnVars, giVars, coVars, isoVars, dqVars>>
notLan == <<schedVars, pcsVars, pmsVars, poolVars, sigVars, mainVars, pubVars, gsVars, plcVars, extVars, lcVars, nmVars, igrVars, cmdVars, ttlVars, hdVars, psnVars, giVars, coVars, isoVars, dqVars>>
notTtl == <<schedVars, pcsVars, pmsVars, poolVars, sigVars, mainVars, pubVars, gsVars, plcVars, extVars, lcVars, nmVars, igrVars, cmdVars, lanVars, hdVars, psnVars, giVars, coVars, isoVars, dqVars>>
notHd == <<schedVars, pcsVars, pmsVars, poolVars, sigVars, mainVars, pubVars, gsVars, plcVars, extVars, lcVars, nmVars, igrVars, cmdVars, lanVars, ttlVars, psnVars, giVars, coVars, isoVars, dqVars>>
notPsn == <<schedVars, pcsVars, pmsVars, poolVars, sigVars, mainVars, pubVars, gsVars, plcVars, extVars, lcVars, nmVars, igrVars, cmdVars, lanVars, ttlVars, hdVars, giVars, coVars, isoVars, dqVars>>
notGi == <<schedVars, pcsVars, pmsVars, poolVars, sigVars, mainVars, pubVars, gsVars, plcVars, extVars, lcVars, nmVars, igrVars, cmdVars, lanVars, ttlVars, hdVars, psnVars, coVars, isoVars, dqVars>>
notCo == <<schedVars, pcsVars, pmsVars, poolVars, sigVars, mainVars, pubVars, gsVars, plcVars, extVars, lcVars, nmVars, igrVars, cmdVars, lanVars, ttlVars, hdVars, psnVars, giVars, isoVars, dqVars>>
notIso == <<schedVars, pcsVars, pmsVars, poolVars, sigVars, mainVars, pubVars, gsVars, plcVars, extVars, lcVars, nmVars, igrVars, cmdVars, lanVars, ttlVars, hdVars, psnVars, giVars, coVars, dqVars>>
notDq == <<schedVars, pcsVars, pmsVars, poolVars, sigVars, mainVars, pubVars, gsVars, plcVars, extVars, lcVars, nmVars, igrVars, cmdVars, lanVars, ttlVars, hdVars, psnVars, giVars, coVars, isoVars>>

FrameIds == 1..NumFrames
NoEmit == [st |-> -1, sq |-> -1]

Min(a, b) == IF a <= b THEN a ELSE b

RECURSIVE Pow2(_)
Pow2(k) == IF k = 0 THEN 1 ELSE 2 * Pow2(k - 1)

\* u32::wrapping_add(1), below the wrap (see the header)
WrappingAdd1(x) == x + 1

(***************************************************************************)
(* init_publisher_goose_frames: one frame per config, stNum = sqNum = 0,   *)
(* numDatSetEntries = 4 * number_of_pcs, allData of that many entries.     *)
(* Every config of the model has number_of_pcs = 1.                        *)
(***************************************************************************)
InitFrame == [stNum |-> 0, sqNum |-> 0,
              numDatSetEntries |-> ENTRIES_PER_PCS, allDataLen |-> ENTRIES_PER_PCS]

init_publisher_goose_frames == [f \in FrameIds |-> InitFrame]

(***************************************************************************)
(* StPlcCmdAll::assign_to_goose_frame (publisher.rs:617-678).  The loop    *)
(* over the frames, from frame i with cmd_position commands consumed, for  *)
(* a datagram of nCmds commands: each frame visited gets sqNum = 0 and an  *)
(* emptied allData before the "enough commands" test; a failed test        *)
(* leaves the loop, a passed one refills allData and advances              *)
(* cmd_position.  stNum is left to the retransmit thread.                  *)
(***************************************************************************)
RECURSIVE AssignLoop(_, _, _, _)
AssignLoop(fs, i, cmd_position, nCmds) ==
    IF i > NumFrames THEN fs
    ELSE LET entries_count == fs[i].numDatSetEntries \div ENTRIES_PER_PCS
             cleared == [fs EXCEPT ![i].sqNum = 0, ![i].allDataLen = 0]
         IN  IF cmd_position + entries_count > nCmds
             THEN cleared
             ELSE AssignLoop([cleared EXCEPT ![i].allDataLen = ENTRIES_PER_PCS * entries_count],
                             i + 1, cmd_position + entries_count, nCmds)

assign_to_goose_frame(fs, nCmds) == AssignLoop(fs, 1, 0, nCmds)

(***************************************************************************)
(* The per-frame update of a scheduler tick (retransmit.rs:127-145).       *)
(***************************************************************************)
TickFrame(fr, by_new_data) ==
    IF by_new_data
    THEN [fr EXCEPT !.stNum = WrappingAdd1(fr.stNum), !.sqNum = 0]
    ELSE [fr EXCEPT !.sqNum = WrappingAdd1(fr.sqNum)]

\* a slip that would fold the cap away: the interval doubles without limit
NextIntervalNoCap(cur) == cur * 2

\* retransmit.rs:194-196: the interval after a timeout retransmission
NextInterval(cur) ==
    IF cur < MAX_INTERVAL_MS THEN Min(cur * 2, MAX_INTERVAL_MS) ELSE cur

\* a slip that would start the main loop after a startup wait that timed out
StartupBreaksOnTimeout == "l_check"

\* retransmit.rs:43-57: a startup wait that timed out goes back to the stop test
StartupAfterTimeout == "s_check"

(***************************************************************************)
(* Initial state: the frames as init_publisher_goose_frames built them,    *)
(* RetransmitSignal::new() (flag false), the thread at its first line.     *)
(***************************************************************************)
SchedInit ==
    /\ frames = init_publisher_goose_frames
    /\ reset = FALSE
    /\ stop_signal = FALSE
    /\ rt_pc = "s_check"
    /\ current_interval_ms = INITIAL_INTERVAL_MS
    /\ is_first_transmission = TRUE
    /\ reset_by_new_data = FALSE
    /\ sleep_target_ms = 0
    /\ frame_idx = 0
    /\ plc_pc = "idle"
    /\ lastEmit = [f \in FrameIds |-> NoEmit]
    /\ prevEmit = [f \in FrameIds |-> NoEmit]
    /\ sigSinceEmit = [f \in FrameIds |-> FALSE]
    /\ afterSignal = [f \in FrameIds |-> FALSE]
    /\ everSignalled = FALSE
    /\ stopBeforeSignal = FALSE
    /\ nSignals = 0
    /\ kSince = [f \in FrameIds |-> -1]
    /\ disturbed = [f \in FrameIds |-> FALSE]
    /\ waitBefore = [f \in FrameIds |-> 0]
    /\ stAtChange = [f \in FrameIds |-> -1]
    /\ waitsAfterStop = 0
    /\ emitAfterStopWait = FALSE

(***************************************************************************)
(* The retransmit thread, spawn_retransmit_thread (retransmit.rs:29-199).  *)
(* wait_timeout (retransmit_signal.rs:35-54) is two steps: the entry,      *)
(* which under the mutex either consumes a raised flag or blocks on the    *)
(* condvar, and the wake-up (notification, timeout or spurious), which     *)
(* under the mutex again returns and clears the flag.                      *)
(***************************************************************************)
\* retransmit.rs:44-47
StartupStopCheck ==
    /\ rt_pc = "s_check"
    /\ rt_pc' = IF stop_signal THEN "done" ELSE "s_enter"
    /\ UNCHANGED <<frames, reset, stop_signal, current_interval_ms,
                   is_first_transmission, reset_by_new_data, sleep_target_ms,
                   frame_idx, plc_pc, obsVars>>
    /\ UNCHANGED stopObs
    /\ UNCHANGED notSched

\* retransmit.rs:51 with retransmit_signal.rs:36-42
StartupWaitEnter ==
    /\ rt_pc = "s_enter"
    /\ IF reset
       THEN reset' = FALSE /\ rt_pc' = "l_check"
       ELSE reset' = reset /\ rt_pc' = "s_blocked"
    /\ UNCHANGED <<frames, stop_signal, current_interval_ms,
                   is_first_transmission, reset_by_new_data, sleep_target_ms,
                   frame_idx, plc_pc, obsVars>>
    /\ waitsAfterStop' = IF reset /\ stop_signal THEN Min(waitsAfterStop + 1, 2)
                        ELSE waitsAfterStop
    /\ UNCHANGED emitAfterStopWait
    /\ UNCHANGED notSched

\* retransmit.rs:51-56 with retransmit_signal.rs:45-53
StartupWaitWake ==
    /\ rt_pc = "s_blocked"
    /\ rt_pc' = IF reset THEN "l_check" ELSE StartupAfterTimeout
    /\ reset' = FALSE
    /\ UNCHANGED <<frames, stop_signal, current_interval_ms,
                   is_first_transmission, reset_by_new_data, sleep_target_ms,
                   frame_idx, plc_pc, obsVars>>
    /\ waitsAfterStop' = IF stop_signal THEN Min(waitsAfterStop + 1, 2)
                        ELSE waitsAfterStop
    /\ UNCHANGED emitAfterStopWait
    /\ UNCHANGED notSched

\* retransmit.rs:62-70
LoopStopCheck ==
    /\ rt_pc = "l_check"
    /\ IF stop_signal
       THEN rt_pc' = "done" /\ sleep_target_ms' = sleep_target_ms
       ELSE rt_pc' = "l_enter" /\ sleep_target_ms' = current_interval_ms
    /\ UNCHANGED <<frames, reset, stop_signal, current_interval_ms,
                   is_first_transmission, reset_by_new_data, frame_idx, plc_pc,
                   obsVars>>
    /\ UNCHANGED stopObs
    /\ UNCHANGED notSched

\* retransmit.rs:76 with retransmit_signal.rs:36-42
LoopWaitEnter ==
    /\ rt_pc = "l_enter"
    /\ IF reset
       THEN reset' = FALSE /\ reset_by_new_data' = TRUE /\ rt_pc' = "l_post"
       ELSE reset' = reset /\ reset_by_new_data' = reset_by_new_data
            /\ rt_pc' = "l_blocked"
    /\ UNCHANGED <<frames, stop_signal, current_interval_ms,
                   is_first_transmission, sleep_target_ms, frame_idx, plc_pc,
                   obsVars>>
    /\ waitsAfterStop' = IF reset /\ stop_signal THEN Min(waitsAfterStop + 1, 2)
                        ELSE waitsAfterStop
    /\ UNCHANGED emitAfterStopWait
    /\ UNCHANGED notSched

\* retransmit.rs:76 with retransmit_signal.rs:45-53
LoopWaitWake ==
    /\ rt_pc = "l_blocked"
    /\ (reset \/ is_first_transmission \/ stop_signal
        \/ \A f \in FrameIds : frames[f].sqNum < MaxSq)
    /\ reset_by_new_data' = (reset \/ is_first_transmission)
    /\ reset' = FALSE
    /\ rt_pc' = "l_post"
    /\ UNCHANGED <<frames, stop_signal, current_interval_ms,
                   is_first_transmission, sleep_target_ms, frame_idx, plc_pc,
                   obsVars>>
    /\ waitsAfterStop' = IF stop_signal THEN Min(waitsAfterStop + 1, 2)
                        ELSE waitsAfterStop
    /\ UNCHANGED emitAfterStopWait
    /\ UNCHANGED notSched

\* a slip that would leave out the stop test after the wait
StopNotSeenAfterWait == FALSE

\* retransmit.rs:81: the stop test after the wait
StopSeenAfterWait == stop_signal

\* retransmit.rs:81-123: stop test, flags, interval reset, frames.write()
PostWait ==
    /\ rt_pc = "l_post"
    /\ IF StopSeenAfterWait
       THEN /\ rt_pc' = "done"
            /\ UNCHANGED <<is_first_transmission, current_interval_ms, frame_idx>>
       ELSE /\ is_first_transmission' = FALSE
            /\ current_interval_ms' =
                  IF reset_by_new_data THEN INITIAL_INTERVAL_MS
                  ELSE current_interval_ms
            /\ frame_idx' = 1
            /\ rt_pc' = "burst"
    /\ UNCHANGED <<frames, reset, stop_signal, reset_by_new_data,
                   sleep_target_ms, plc_pc, obsVars>>
    /\ UNCHANGED stopObs
    /\ UNCHANGED notSched

\* retransmit.rs:126-159 for one frame; after the last frame the lock is
\* released and the interval doubled (retransmit.rs:194-196)
EmitFrame ==
    /\ rt_pc = "burst"
    /\ LET f == frame_idx
           fr == TickFrame(frames[f], reset_by_new_data)
       IN  /\ frames' = [frames EXCEPT ![f] = fr]
           /\ prevEmit' = [prevEmit EXCEPT ![f] = lastEmit[f]]
           /\ lastEmit' = [lastEmit EXCEPT ![f] = [st |-> fr.stNum, sq |-> fr.sqNum]]
           /\ afterSignal' = [afterSignal EXCEPT ![f] = sigSinceEmit[f]]
           /\ sigSinceEmit' = [sigSinceEmit EXCEPT ![f] = FALSE]
           /\ waitBefore' = [waitBefore EXCEPT ![f] = sleep_target_ms]
           /\ kSince' = [kSince EXCEPT ![f] =
                            IF reset_by_new_data THEN 0 ELSE kSince[f] + 1]
           /\ stAtChange' = [stAtChange EXCEPT ![f] =
                            IF reset_by_new_data THEN fr.stNum ELSE stAtChange[f]]
           /\ disturbed' = [disturbed EXCEPT ![f] =
                            IF reset_by_new_data THEN reset ELSE disturbed[f]]
           /\ IF f = NumFrames
              THEN /\ rt_pc' = "l_check"
                   /\ frame_idx' = 0
                   /\ current_interval_ms' =
                         IF ~reset_by_new_data
                         THEN NextInterval(current_interval_ms)
                         ELSE current_interval_ms
              ELSE /\ rt_pc' = "burst"
                   /\ frame_idx' = f + 1
                   /\ current_interval_ms' = current_interval_ms
    /\ UNCHANGED <<reset, stop_signal, is_first_transmission, reset_by_new_data,
                   sleep_target_ms, plc_pc, everSignalled, stopBeforeSignal,
                   nSignals>>
    /\ emitAfterStopWait' = (emitAfterStopWait \/ waitsAfterStop > 0)
    /\ UNCHANGED waitsAfterStop
    /\ UNCHANGED notSched

\* the stop flag is raised (by whoever owns the thread)
SetStop ==
    /\ ~stop_signal
    /\ stop_signal' = TRUE
    /\ stopBeforeSignal' = ~everSignalled
    /\ UNCHANGED <<frames, reset, rtVars, plc_pc, lastEmit, prevEmit,
                   sigSinceEmit, afterSignal, everSignalled, nSignals, kSince,
                   disturbed, waitBefore, stAtChange>>
    /\ UNCHANGED stopObs
    /\ UNCHANGED notSched

(***************************************************************************)
(* PLC ingestion: a datagram of nCmds commands is written into the shared  *)
(* frames under the frames write lock (so not during a burst), then the    *)
(* retransmit thread is signalled.                                         *)
(***************************************************************************)
PlcAssign ==
    /\ plc_pc = "idle"
    /\ rt_pc # "burst"
    /\ nSignals < MaxSignals
    /\ \E nCmds \in 0..NumFrames :
          frames' = assign_to_goose_frame(frames, nCmds)
    /\ plc_pc' = "assigned"
    /\ disturbed' = [f \in FrameIds |-> TRUE]
    /\ UNCHANGED <<reset, stop_signal, rtVars, lastEmit, prevEmit, sigSinceEmit,
                   afterSignal, everSignalled, stopBeforeSignal, nSignals,
                   kSince, waitBefore, stAtChange>>
    /\ UNCHANGED stopObs
    /\ UNCHANGED notSched

\* RetransmitSignal::signal_reset (retransmit_signal.rs:27-31)
signal_reset ==
    /\ plc_pc = "assigned"
    /\ reset' = TRUE
    /\ plc_pc' = "idle"
    /\ nSignals' = nSignals + 1
    /\ everSignalled' = TRUE
    /\ sigSinceEmit' = [f \in FrameIds |-> TRUE]
    /\ disturbed' = [f \in FrameIds |-> TRUE]
    /\ UNCHANGED <<frames, stop_signal, rtVars, lastEmit, prevEmit, afterSignal,
                   stopBeforeSignal, kSince, waitBefore, stAtChange>>
    /\ UNCHANGED stopObs
    /\ UNCHANGED notSched

(***************************************************************************)
(* One PCS record of one LAN (pcs/types.rs), the frames a remote publisher *)
(* sends to it, the workers that apply them, and the validity sweeper.     *)
(*                                                                         *)
(* Time is SystemTime::now() in ms.  The clock reads of one call           *)
(* (types.rs:147 and 153 in update_from_goose, 399 and 441 in a validity   *)
(* check) fall in the same millisecond step of the modelled clock; each    *)
(* call runs under the record's lock.  The deadline arithmetic of          *)
(* update_from_goose is done in u64 (timeAllowedtoLive as u64 * 2 + 5000), *)
(* which no u32 TTL overflows.                                             *)
(***************************************************************************)
\* Option::None of a timestamp
NoTime == -1

\* no PDU in a worker's hands
NoPdu == [stNum |-> -1, sqNum |-> -1, timeAllowedtoLive |-> -1]

WorkerIds == 1..NumWorkers

\* timeAllowedtoLive values the remote publisher uses (ms)
TtlVals == {0, 1250}

\* the clock advances in steps of half the grace period
TickMs == GRACE_MS \div 2

\* SubscriberPCSData::new (types.rs:88-100) with IECGoosePdu::default()
SubscriberPCSData_new ==
    [stNum |-> 0, sqNum |-> 0, timeAllowedtoLive |-> 0,
     last_update |-> NoTime, invaliditytime |-> NoTime, statevalid |-> FALSE]

\* validate_goose_sequence (types.rs:285-390)
validate_goose_sequence(rec, new_pdu) ==
    IF rec.last_update = NoTime THEN TRUE
    ELSE IF new_pdu.stNum > rec.stNum THEN TRUE
    ELSE IF new_pdu.stNum = rec.stNum THEN new_pdu.sqNum >= rec.sqNum
    ELSE TRUE

\* a slip that would leave the deadline of a TTL-less PDU at the grace period
DeadlineAfterUpdateAlways(rec, pdu, t) == t + pdu.timeAllowedtoLive * 2 + GRACE_MS

\* types.rs:151-154: the invalidity time after an update at time t
DeadlineAfterUpdate(rec, pdu, t) ==
    IF pdu.timeAllowedtoLive > 0
    THEN t + pdu.timeAllowedtoLive * 2 + GRACE_MS
    ELSE rec.invaliditytime

\* update_from_goose (types.rs:117-170) at time t
update_from_goose(rec, pdu, t) ==
    LET is_sequence_valid == validate_goose_sequence(rec, pdu)
    IN  [stNum |-> pdu.stNum,
         sqNum |-> pdu.sqNum,
         timeAllowedtoLive |-> pdu.timeAllowedtoLive,
         last_update |-> t,
         invaliditytime |-> DeadlineAfterUpdate(rec, pdu, t),
         statevalid |-> is_sequence_valid]

\* a slip that would keep a record valid at the instant of its deadline
is_data_valid_late(rec, t) ==
    IF ~rec.statevalid THEN FALSE
    ELSE IF rec.invaliditytime # NoTime THEN t <= rec.invaliditytime
    ELSE IF rec.last_update # NoTime
         THEN t - rec.last_update < FALLBACK_TIMEOUT_MS
         ELSE FALSE

\* is_data_valid (types.rs:393-411) at time t
is_data_valid(rec, t) ==
    IF ~rec.statevalid THEN FALSE
    ELSE IF rec.invaliditytime # NoTime THEN t < rec.invaliditytime
    ELSE IF rec.last_update # NoTime
         THEN t - rec.last_update < FALLBACK_TIMEOUT_MS
         ELSE FALSE

\* a slip that would only log the timeout and leave the flag set
check_and_update_validity_logs_only(rec, t) ==
    [rec |-> rec, was_valid |-> is_data_valid(rec, t)]

\* the two timeout tests of check_and_update_validity (types.rs:440-477)
Expired(rec, t) ==
    IF rec.invaliditytime # NoTime THEN t >= rec.invaliditytime
    ELSE IF rec.last_update # NoTime
         THEN t - rec.last_update >= FALLBACK_TIMEOUT_MS
         ELSE FALSE

\* a slip that would set the flag again for a record that has not timed out
check_and_update_validity_revives(rec, t) ==
    LET was_valid == is_data_valid(rec, t)
    IN  [rec |-> [rec EXCEPT !.statevalid = ~Expired(rec, t)],
         was_valid |-> was_valid]

\* check_and_update_validity (types.rs:436-480) at time t: the record after
\* the check and the value returned
check_and_update_validity(rec, t) ==
    LET was_valid == is_data_valid(rec, t)
    IN  [rec |-> IF Expired(rec, t) THEN [rec EXCEPT !.statevalid = FALSE] ELSE rec,
         was_valid |-> was_valid]

\* check_validity of the store (pcs/process_data.rs), for the one record:
\* it runs check_and_update_validity on the record and lists it as newly
\* invalid when its state_valid went from true to false, as newly valid
\* when it went from false to true
check_validity(rec, t) ==
    LET after == check_and_update_validity(rec, t).rec
    IN  [rec |-> after,
         became_invalid |-> rec.statevalid /\ ~after.statevalid,
         became_valid |-> ~rec.statevalid /\ after.statevalid]

PcsInit ==
    /\ pcs = SubscriberPCSData_new
    /\ now = 0
    /\ held = [w \in WorkerIds |-> NoPdu]
    /\ sndSt = 1
    /\ sndSq = -1
    /\ nSent = 0
    /\ became_invalid = FALSE
    /\ reports = 0
    /\ sweptAfterDeadline = FALSE
    /\ validAtUpdate = FALSE

\* the clock advances
Tick ==
    /\ now < MaxTicks * TickMs
    /\ now' = now + TickMs
    /\ UNCHANGED <<pcs, held, sndSt, sndSq, nSent, became_invalid, reports,
                   sweptAfterDeadline, validAtUpdate>>
    /\ UNCHANGED notPcs

\* worker.rs:35-46: a worker takes the next frame of the LAN from the
\* dispatch channel and decodes it.  The remote publisher sends in order
\* and does not restart: each frame is a retransmission (sqNum + 1) or a
\* state change (stNum + 1, sqNum 0) of the one before.
WorkerRecv(w) ==
    /\ held[w] = NoPdu
    /\ nSent < MaxSent
    /\ \E change \in BOOLEAN, ttl \in TtlVals :
          LET st == IF change /\ nSent > 0 THEN sndSt + 1 ELSE sndSt
              sq == IF change /\ nSent > 0 THEN 0 ELSE sndSq + 1
          IN  /\ sndSt' = st
              /\ sndSq' = sq
              /\ held' = [held EXCEPT ![w] =
                            [stNum |-> st, sqNum |-> sq, timeAllowedtoLive |-> ttl]]
    /\ nSent' = nSent + 1
    /\ UNCHANGED <<pcs, now, became_invalid, reports, sweptAfterDeadline,
                   validAtUpdate>>
    /\ UNCHANGED notPcs

\* worker.rs:49-55 and update_with_index: under the record's lock the
\* worker applies its PDU with update_from_goose
WorkerUpdate(w) ==
    /\ held[w] # NoPdu
    /\ pcs' = update_from_goose(pcs, held[w], now)
    /\ held' = [held EXCEPT ![w] = NoPdu]
    /\ reports' = 0
    /\ sweptAfterDeadline' = FALSE
    /\ validAtUpdate' = pcs'.statevalid
    /\ became_invalid' = FALSE
    /\ UNCHANGED <<now, sndSt, sndSq, nSent>>
    /\ UNCHANGED notPcs

\* validity.rs:24-60: one pass of the sweeper, at whatever time it wakes
Sweep ==
    /\ LET r == check_validity(pcs, now)
       IN  /\ pcs' = r.rec
           /\ became_invalid' = r.became_invalid
           /\ reports' = IF r.became_invalid THEN Min(reports + 1, 2) ELSE reports
    /\ sweptAfterDeadline' = (sweptAfterDeadline \/ Expired(pcs, now))
    /\ UNCHANGED <<now, held, sndSt, sndSq, nSent, validAtUpdate>>
    /\ UNCHANGED notPcs

(***************************************************************************)
(* The PMS command worker (threads/pms_command_rx.rs).  DashMap::get_mut   *)
(* holds the entry's shard lock from the freshness test to the             *)
(* replacement, so one frame is processed in one step.                     *)
(***************************************************************************)
\* APPIDs on the wire: 1 is configured and has a subscriber entry, 2 is
\* configured without an entry, 3 is not configured
AppIds == 1..3

pms_command_appid_list == {1, 2}

SubscribedAppIds == {1}

\* stNum values around the restart threshold
StVals == {0, 1, RESTART_THRESHOLD, RESTART_THRESHOLD + 1, RESTART_THRESHOLD + 2,
           2 * RESTART_THRESHOLD + 1, 2 * RESTART_THRESHOLD + 2}

SqVals == 0..2

ConfRevVals == {0, 1}

\* decoded PDUs a worker can receive
RxPdus == [stNum : StVals, sqNum : SqVals, confRev : ConfRevVals]

NoRx == [appid |-> 0]

\* a slip that would accept a duplicate of the stored frame
is_newer_or_equal(cur, rx) ==
    LET is_restart == /\ cur.stNum > RESTART_THRESHOLD
                      /\ rx.stNum < cur.stNum
                      /\ cur.stNum - rx.stNum > RESTART_THRESHOLD
        is_reconfig == rx.confRev # cur.confRev
    IN  \/ rx.stNum > cur.stNum
        \/ (rx.stNum = cur.stNum /\ rx.sqNum >= cur.sqNum)
        \/ is_restart
        \/ is_reconfig

\* pms_command_rx.rs:97-116
is_newer(cur, rx) ==
    LET is_restart == /\ cur.stNum > RESTART_THRESHOLD
                      /\ rx.stNum < cur.stNum
                      /\ cur.stNum - rx.stNum > RESTART_THRESHOLD
        is_reconfig == rx.confRev # cur.confRev
    IN  \/ rx.stNum > cur.stNum
        \/ (rx.stNum = cur.stNum /\ rx.sqNum > cur.sqNum)
        \/ is_restart
        \/ is_reconfig

\* the subscriber map at startup: an entry per subscribed APPID holding
\* IECGoosePdu::default() and no update time
PmsInit ==
    /\ pms_subscribers = [a \in SubscribedAppIds |->
                            [goosepdu |-> [stNum |-> 0, sqNum |-> 0, confRev |-> 0],
                             last_update_time |-> NoTime]]
    /\ pms_now = 0
    /\ pms_last = NoRx

\* the clock of the PMS worker advances
PmsTick ==
    /\ pms_now < MaxPmsTicks
    /\ pms_now' = pms_now + 1
    /\ UNCHANGED <<pms_subscribers, pms_last>>
    /\ UNCHANGED notPms

\* pms_command_rx.rs:60-188: one frame taken from the channel and decoded
PmsWorkerFrame ==
    \E appid \in AppIds, rx_pdu \in RxPdus :
       /\ pms_last' = [appid |-> appid, rx |-> rx_pdu, at |-> pms_now,
                       before |-> IF appid \in DOMAIN pms_subscribers
                                  THEN pms_subscribers[appid]
                                  ELSE [goosepdu |-> rx_pdu, last_update_time |-> NoTime]]
       /\ IF appid \notin pms_command_appid_list
          THEN UNCHANGED pms_subscribers
          ELSE IF appid \notin DOMAIN pms_subscribers
          THEN UNCHANGED pms_subscribers
          ELSE IF ~is_newer(pms_subscribers[appid].goosepdu, rx_pdu)
          THEN UNCHANGED pms_subscribers
          ELSE pms_subscribers' =
                  [pms_subscribers EXCEPT ![appid] =
                      [goosepdu |-> rx_pdu, last_update_time |-> pms_now]]
       /\ UNCHANGED pms_now
       /\ UNCHANGED notPms

(***************************************************************************)
(* The receive buffer pool (goose/buffer_pool.rs).  A buffer is a Vec<u8>, *)
(* modelled by an identity (its allocation) and its logical length.        *)
(* ArrayQueue::pop and ArrayQueue::push are linearizable, so each is one   *)
(* step; PooledBuffer::drop is two: the thread-local part (mem::take,      *)
(* clear, reserve) and the push.                                           *)
(***************************************************************************)
BufferIds == 1..PoolCapacity

SlotIds == 1..NumSlots

\* a slot with no handle in it
NoHandle == [pc |-> "none"]

\* no acquire() was the last step
NoAcq == [res |-> "no"]

\* BufferPool::new (buffer_pool.rs:99-115): capacity buffers, each cleared
BufferPool_new == [i \in BufferIds |-> [id |-> i, len |-> 0]]

\* a slip that would report an exhausted pool while one buffer is left
PopNeedsTwo(q) == Len(q) > 1

\* ArrayQueue::pop (buffer_pool.rs:121) succeeds when the queue holds a buffer
PopSucceeds(q) == Len(q) > 0

\* a slip that would forget to hand the buffer back
push_forgets(q, buffer) == q

\* ArrayQueue::push (buffer_pool.rs:74): a full queue refuses the buffer and
\* drop ignores that
push(q, buffer) == IF Len(q) < PoolCapacity THEN Append(q, buffer) ELSE q

\* a slip that would return the buffer with the borrower's data length
drop_keeps_len(buffer) == buffer

\* PooledBuffer::drop, the part before the push (buffer_pool.rs:68-73)
drop_clear(buffer) == [buffer EXCEPT !.len = 0]

PoolInit ==
    /\ queue = BufferPool_new
    /\ handles = [s \in SlotIds |-> NoHandle]
    /\ acq = NoAcq
    /\ written = {}

\* BufferPool::acquire (buffer_pool.rs:120-125), its result put in free slot s
acquire(s) ==
    /\ handles[s] = NoHandle
    /\ acq' = [res |-> IF PopSucceeds(queue) THEN "some" ELSE "none",
               slot |-> s, queue |-> queue, handles |-> handles]
    /\ IF PopSucceeds(queue)
       THEN /\ queue' = Tail(queue)
            /\ handles' = [handles EXCEPT ![s] =
                              [pc |-> "held", buffer |-> Head(queue)]]
       ELSE UNCHANGED <<queue, handles>>
    /\ UNCHANGED written
    /\ UNCHANGED notPool

\* PooledBuffer::copy_from_slice / set_len (buffer_pool.rs:32-48)
copy_from_slice(s) ==
    /\ handles[s].pc = "held"
    /\ \E len \in 0..MaxLen :
          /\ handles' = [handles EXCEPT ![s].buffer.len = len]
          /\ written' = IF len > 0 THEN written \cup {handles[s].buffer.id}
                        ELSE written
    /\ acq' = NoAcq
    /\ UNCHANGED queue
    /\ UNCHANGED notPool

\* PooledBuffer::drop up to the push (buffer_pool.rs:66-73)
drop_take(s) ==
    /\ handles[s].pc = "held"
    /\ handles' = [handles EXCEPT ![s] =
                      [pc |-> "dropping", buffer |-> drop_clear(handles[s].buffer)]]
    /\ acq' = NoAcq
    /\ UNCHANGED <<queue, written>>
    /\ UNCHANGED notPool

\* PooledBuffer::drop, the push (buffer_pool.rs:74); the handle is gone
drop_push(s) ==
    /\ handles[s].pc = "dropping"
    /\ queue' = push(queue, handles[s].buffer)
    /\ handles' = [handles EXCEPT ![s] = NoHandle]
    /\ acq' = NoAcq
    /\ UNCHANGED written
    /\ UNCHANGED notPool

(***************************************************************************)
(* RetransmitSignal on its own (threads/retransmit_signal.rs): one thread  *)
(* that calls wait_timeout, any number of threads that call signal_reset,  *)
(* and the time of the wait.  Condvar::wait_timeout releases the mutex     *)
(* while blocked and takes it again before returning; it returns on a      *)
(* notification, when the timeout has elapsed, or spuriously.              *)
(***************************************************************************)
\* RetransmitSignal::new (retransmit_signal.rs:18-23)
SigInit ==
    /\ sig_flag = FALSE
    /\ waiter_pc = "idle"
    /\ wait_left = 0
    /\ wait_result = FALSE
    /\ unconsumed = FALSE
    /\ nCalls = 0

\* signal_reset (retransmit_signal.rs:27-31), by any thread, under the mutex
SigSignalReset ==
    /\ nCalls < MaxCalls
    /\ sig_flag' = TRUE
    /\ unconsumed' = TRUE
    /\ nCalls' = nCalls + 1
    /\ UNCHANGED <<waiter_pc, wait_left, wait_result>>
    /\ UNCHANGED notSig

\* wait_timeout up to the condvar (retransmit_signal.rs:36-45)
SigWaitEnter ==
    /\ waiter_pc = "idle"
    /\ nCalls < MaxCalls
    /\ nCalls' = nCalls + 1
    /\ \E timeout \in 1..MaxWait :
          IF sig_flag
          THEN /\ sig_flag' = FALSE
               /\ wait_result' = TRUE
               /\ unconsumed' = FALSE
               /\ UNCHANGED <<waiter_pc, wait_left>>
          ELSE /\ waiter_pc' = "blocked"
               /\ wait_left' = timeout
               /\ UNCHANGED <<sig_flag, wait_result, unconsumed>>
    /\ UNCHANGED notSig

\* a millisecond passes while the waiter is blocked
SigWaitTick ==
    /\ waiter_pc = "blocked"
    /\ wait_left > 0
    /\ wait_left' = wait_left - 1
    /\ UNCHANGED <<sig_flag, waiter_pc, wait_result, unconsumed, nCalls>>
    /\ UNCHANGED notSig

\* Condvar::wait_timeout returns (retransmit_signal.rs:45): notified, timed
\* out, or woken for no reason; the waiter now contends for the mutex
SigWake ==
    /\ waiter_pc = "blocked"
    /\ waiter_pc' = "woken"
    /\ UNCHANGED <<sig_flag, wait_left, wait_result, unconsumed, nCalls>>
    /\ UNCHANGED notSig

\* wait_timeout after the condvar (retransmit_signal.rs:48-53), mutex held
SigWaitReturn ==
    /\ waiter_pc = "woken"
    /\ waiter_pc' = "idle"
    /\ wait_result' = sig_flag
    /\ sig_flag' = FALSE
    /\ unconsumed' = IF sig_flag THEN FALSE ELSE unconsumed
    /\ UNCHANGED wait_left
    /\ UNCHANGED nCalls
    /\ UNCHANGED notSig

(***************************************************************************)
(* run() (main.rs:34-186) after start-up: the main thread parked, the two  *)
(* LAN receivers, the workers (threads/worker.rs), the validity sweeper    *)
(* (threads/validity.rs) and the publisher (main.rs:275-433).  `handles`   *)
(* is, in order: validity, publisher, the workers, LAN1, LAN2              *)
(* (main.rs:164-167).                                                      *)
(***************************************************************************)
LanIds == 1..2

\* main.rs:164-167
NumHandles == 2 + NumWorkers + 2

\* the thread behind handles[i] has ended
HandleDone(i) ==
    IF i = 1 THEN val_pc = "done"
    ELSE IF i = 2 THEN pub_pc = "done"
    ELSE IF i <= 2 + NumWorkers THEN wk_pc[i - 2] = "done"
    ELSE rcv_pc[i - 2 - NumWorkers] = "done"

MainInit ==
    /\ main_pc = "parked"
    /\ join_idx = 0
    /\ senders = {"main", "lan1", "lan2"}
    /\ chan = 0
    /\ rcv_pc = [l \in LanIds |-> "next"]
    /\ wk_pc = [w \in WorkerIds |-> "recv"]
    /\ val_pc = "sleep"
    /\ pub_pc = "process"

\* main.rs:178-185, the next step of the main thread: park() returns and
\* packet_tx is dropped; then, one at a time, the join of handles[join_idx]
\* returns once that thread has ended; after the last one run() returns
run ==
    /\ IF main_pc = "parked"
       THEN /\ main_pc' = "joining"
            /\ join_idx' = 1
            /\ senders' = senders \ {"main"}
       ELSE /\ main_pc = "joining"
            /\ HandleDone(join_idx)
            /\ main_pc' = IF join_idx = NumHandles THEN "returned" ELSE main_pc
            /\ join_idx' = IF join_idx = NumHandles THEN join_idx ELSE join_idx + 1
            /\ UNCHANGED senders
    /\ UNCHANGED <<chan, rcv_pc, wk_pc, val_pc, pub_pc>>
    /\ UNCHANGED notMain

\* main.rs:125-130 / 141-146: rx.next() yields a GOOSE packet, which is
\* copied into a pooled buffer and offered to the channel with try_send
ReceiverPacket(l) ==
    /\ rcv_pc[l] = "next"
    /\ chan' = IF chan < ChanCap THEN chan + 1 ELSE chan
    /\ UNCHANGED <<main_pc, join_idx, senders, rcv_pc, wk_pc, val_pc, pub_pc>>
    /\ UNCHANGED notMain

\* main.rs:125 / 141: rx.next() fails, the loop ends and the thread's
\* clone of the sender is dropped with it
ReceiverError(l) ==
    /\ rcv_pc[l] = "next"
    /\ rcv_pc' = [rcv_pc EXCEPT ![l] = "done"]
    /\ senders' = senders \ {IF l = 1 THEN "lan1" ELSE "lan2"}
    /\ UNCHANGED <<main_pc, join_idx, chan, wk_pc, val_pc, pub_pc>>
    /\ UNCHANGED notMain

\* worker.rs:35: rx.recv() returns a packet, or an error once the channel
\* is empty and every sender is gone; otherwise it blocks
MainWorkerRecv(w) ==
    /\ wk_pc[w] = "recv"
    /\ \/ /\ chan > 0
          /\ chan' = chan - 1
          /\ wk_pc' = [wk_pc EXCEPT ![w] = "busy"]
       \/ /\ chan = 0
          /\ senders = {}
          /\ wk_pc' = [wk_pc EXCEPT ![w] = "done"]
          /\ UNCHANGED chan
    /\ UNCHANGED <<main_pc, join_idx, senders, rcv_pc, val_pc, pub_pc>>
    /\ UNCHANGED notMain

\* worker.rs:36-116: the body of the loop
MainWorkerBody(w) ==
    /\ wk_pc[w] = "busy"
    /\ wk_pc' = [wk_pc EXCEPT ![w] = "recv"]
    /\ UNCHANGED <<main_pc, join_idx, senders, chan, rcv_pc, val_pc, pub_pc>>
    /\ UNCHANGED notMain

\* validity.rs:24-71: `loop { sleep; check; log }`, with no way out
ValidityStep ==
    /\ val_pc \in {"sleep", "check"}
    /\ val_pc' = IF val_pc = "sleep" THEN "check" ELSE "sleep"
    /\ UNCHANGED <<main_pc, join_idx, senders, chan, rcv_pc, wk_pc, pub_pc>>
    /\ UNCHANGED notMain

\* main.rs:289-431: `loop { process frames; wait_timeout }`, with no way out
PublisherStep ==
    /\ pub_pc \in {"process", "wait"}
    /\ pub_pc' = IF pub_pc = "process" THEN "wait" ELSE "process"
    /\ UNCHANGED <<main_pc, join_idx, senders, chan, rcv_pc, wk_pc, val_pc>>
    /\ UNCHANGED notMain

(***************************************************************************)
(* spawn_publisher_thread (main.rs:275-433): one FrameMetadata per PCS,    *)
(* all of them processed in every pass of the loop, then one wait on the   *)
(* update signal.  The PCS records are written by the workers              *)
(* (update_from_goose, pcs/types.rs:147).  SystemTime::now() is a counter  *)
(* that grows with every reading, Instant::now() a clock in ms.            *)
(* The GOOSE sender thread (threads/pcs_publisher.rs) shares the model of  *)
(* the two optional transmitters.                                          *)
(***************************************************************************)
PcsIds == 1..NumPcs

\* outcomes of one build_and_send / send_to on a transmitter
SendResults == {"ok", "err", "none"}

\* main.rs:197-205 around a frame of init_goose_frame_for_pcs
\* (pcs/publisher.rs:138-139)
FrameMetadata_new ==
    [stNum |-> 0, sqNum |-> 0, last_update |-> NoTime, last_send |-> NoTime,
     current_interval_ms |-> INITIAL_INTERVAL_MS]

\* main.rs:297-309
data_was_updated(md, rlu) ==
    /\ rlu # NoTime
    /\ (md.last_update = NoTime \/ rlu > md.last_update)

\* main.rs:312-317
AfterUpdateCheck(md, rlu, sysnow) ==
    IF data_was_updated(md, rlu)
    THEN [md EXCEPT !.current_interval_ms = INITIAL_INTERVAL_MS, !.last_update = sysnow]
    ELSE md

\* main.rs:320-322
time_since_last_send(md, t) ==
    IF md.last_send = NoTime THEN md.current_interval_ms ELSE t - md.last_send

\* main.rs:324-326, on the metadata as lines 312-317 left it
FrameDue(md, rlu, sysnow, t) ==
    LET md1 == AfterUpdateCheck(md, rlu, sysnow)
    IN  time_since_last_send(md1, t) >= md1.current_interval_ms

\* a slip that would double the interval of a PCS frame without the cap
AfterSendUncapped(md, upd, t) ==
    [md EXCEPT !.stNum = IF upd THEN WrappingAdd1(@) ELSE @,
               !.sqNum = IF upd THEN 0 ELSE WrappingAdd1(@),
               !.last_send = t,
               !.current_interval_ms = IF ~upd THEN @ * 2 ELSE @]

\* main.rs:346-353, 398-403
AfterSend(md, upd, t) ==
    [md EXCEPT !.stNum = IF upd THEN WrappingAdd1(@) ELSE @,
               !.sqNum = IF upd THEN 0 ELSE WrappingAdd1(@),
               !.last_send = t,
               !.current_interval_ms =
                   IF ~upd /\ @ < MAX_INTERVAL_MS
                   THEN Min(@ * 2, MAX_INTERVAL_MS) ELSE @]

\* main.rs:295-416: the body of the for loop for one frame
ProcessFrame(md, rlu, sysnow, t) ==
    IF FrameDue(md, rlu, sysnow, t)
    THEN AfterSend(AfterUpdateCheck(md, rlu, sysnow), data_was_updated(md, rlu), t)
    ELSE AfterUpdateCheck(md, rlu, sysnow)

\* main.rs:410, 413-414: what one frame contributes to min_wait_time
FrameWait(md, rlu, sysnow, t) ==
    LET md1 == AfterUpdateCheck(md, rlu, sysnow)
    IN  IF FrameDue(md, rlu, sysnow, t)
        THEN ProcessFrame(md, rlu, sysnow, t).current_interval_ms
        ELSE md1.current_interval_ms - time_since_last_send(md1, t)

\* main.rs:363-375 / pcs_publisher.rs:52-66: is a send attempted on LAN1
Lan1Attempted(present, res) == present[1]

\* the send on LAN2 made to depend on the outcome on LAN1
Lan2AfterLan1Ok(present, res) == present[2] /\ (present[1] => res[1] = "ok")

\* main.rs:377-389 / pcs_publisher.rs:68-83: is a send attempted on LAN2
Lan2Attempted(present, res) == present[2]

\* main.rs:363-389 / pcs_publisher.rs:52-83: what happens on each LAN
\* when the transmitters would answer res
SendBoth(present, res) ==
    [l \in LanIds |->
        IF l = 1
        THEN IF Lan1Attempted(present, res) THEN res[1] ELSE "absent"
        ELSE IF Lan2Attempted(present, res) THEN res[2] ELSE "absent"]

\* no frame was due, or none was received yet
NoLog == [l \in LanIds |-> "absent"]

PubInit ==
    /\ goose_frames = [p \in PcsIds |-> FrameMetadata_new]
    /\ rec_last_update = [p \in PcsIds |-> NoTime]
    /\ stamp = 0
    /\ pub_now = 0
    /\ pb_pc = "spawn"
    /\ min_wait_time = 0
    /\ wait_start = 0
    /\ tx_present = [l \in LanIds |-> FALSE]
    /\ lan_log = [due |-> FALSE, out |-> NoLog]
    /\ pendingUpd = [p \in PcsIds |-> FALSE]
    /\ nUpd = 0
    /\ gs_pc = "none"
    /\ gs_log = [got |-> FALSE, out |-> NoLog]

\* main.rs:153-160, 275-283 / pcs_publisher.rs:18-40: the thread is spawned
\* with the two transmitters, each of which may be None
SpawnWithTransmitters ==
    /\ pb_pc = "spawn"
    /\ \E present \in [LanIds -> BOOLEAN] :
        /\ tx_present' = present
        /\ gs_pc' = IF \E l \in LanIds : present[l] THEN "recv" ELSE "none"
    /\ pb_pc' = "process"
    /\ UNCHANGED <<goose_frames, rec_last_update, stamp, pub_now, min_wait_time,
                   wait_start, lan_log, pendingUpd, nUpd>>
    /\ UNCHANGED gs_log
    /\ UNCHANGED notPub

\* the clock advances by one ms
PubTick ==
    /\ pub_now < MaxPubTime
    /\ pub_now' = pub_now + 1
    /\ UNCHANGED <<goose_frames, rec_last_update, stamp, pb_pc, min_wait_time,
                   wait_start, tx_present, lan_log, pendingUpd, nUpd>>
    /\ UNCHANGED gsVars
    /\ UNCHANGED notPub

\* pcs/types.rs:147: a worker applies a frame to the record of PCS p
PcsRecordUpdate(p) ==
    /\ nUpd < MaxUpdates
    /\ nUpd' = nUpd + 1
    /\ stamp' = stamp + 1
    /\ rec_last_update' = [rec_last_update EXCEPT ![p] = stamp + 1]
    /\ pendingUpd' = [pendingUpd EXCEPT ![p] = TRUE]
    /\ UNCHANGED <<goose_frames, pub_now, pb_pc, min_wait_time, wait_start,
                   tx_present, lan_log>>
    /\ UNCHANGED gsVars
    /\ UNCHANGED notPub

\* main.rs:290-416: one pass over every frame, up to the call of wait_timeout
PublisherPass ==
    /\ pb_pc = "process"
    /\ goose_frames' =
           [p \in PcsIds |->
               ProcessFrame(goose_frames[p], rec_last_update[p], stamp + 1, pub_now)]
    /\ \E p \in PcsIds, res \in [LanIds -> SendResults] :
           lan_log' =
               IF FrameDue(goose_frames[p], rec_last_update[p], stamp + 1, pub_now)
               THEN [due |-> TRUE, out |-> SendBoth(tx_present, res)]
               ELSE [due |-> FALSE, out |-> NoLog]
    /\ pendingUpd' =
           [p \in PcsIds |->
               IF FrameDue(goose_frames[p], rec_last_update[p], stamp + 1, pub_now)
               THEN FALSE ELSE pendingUpd[p]]
    /\ stamp' = IF \E p \in PcsIds : data_was_updated(goose_frames[p], rec_last_update[p])
                THEN stamp + 1 ELSE stamp
    /\ min_wait_time' =
           LET w(p) == FrameWait(goose_frames[p], rec_last_update[p], stamp + 1, pub_now)
               least == CHOOSE p \in PcsIds : \A q \in PcsIds : w(p) <= w(q)
           IN  Min(MAX_INTERVAL_MS, w(least))
    /\ wait_start' = pub_now
    /\ pb_pc' = "wait"
    /\ UNCHANGED <<rec_last_update, pub_now, tx_present, nUpd>>
    /\ UNCHANGED gsVars
    /\ UNCHANGED notPub

\* main.rs:420, retransmit_signal.rs:39-54: the wait ends with its timeout
PubWaitTimeout ==
    /\ pb_pc = "wait"
    /\ pub_now - wait_start >= min_wait_time
    /\ pb_pc' = "process"
    /\ UNCHANGED <<goose_frames, rec_last_update, stamp, pub_now, min_wait_time,
                   wait_start, tx_present, lan_log, pendingUpd, nUpd>>
    /\ UNCHANGED gsVars
    /\ UNCHANGED notPub

\* main.rs:420, retransmit_signal.rs:39-54: the wait ends before its timeout
\* (a notification, or a wake-up of the condition variable without one)
PubWaitEarly ==
    /\ pb_pc = "wait"
    /\ pub_now - wait_start < min_wait_time
    /\ pb_pc' = "process"
    /\ UNCHANGED <<goose_frames, rec_last_update, stamp, pub_now, min_wait_time,
                   wait_start, tx_present, lan_log, pendingUpd, nUpd>>
    /\ UNCHANGED gsVars
    /\ UNCHANGED notPub

\* pcs_publisher.rs:42-109: goose_rx.recv() yields a frame, which is sent
\* on both LANs; the loop goes on whatever the sends answered
GooseSenderFrame ==
    /\ gs_pc = "recv"
    /\ \E res \in [LanIds -> SendResults] :
           gs_log' = [got |-> TRUE, out |-> SendBoth(tx_present, res)]
    /\ UNCHANGED gs_pc
    /\ UNCHANGED pubVars
    /\ UNCHANGED notPub

\* pcs_publisher.rs:42, 110: every sender of the channel is gone, recv()
\* fails and the thread ends
GooseSenderClosed ==
    /\ gs_pc = "recv"
    /\ gs_pc' = "stopped"
    /\ UNCHANGED gs_log
    /\ UNCHANGED pubVars
    /\ UNCHANGED notPub

(***************************************************************************)
(* The PLC datagram functions of threads/publisher.rs.  A datagram is a    *)
(* sequence of bytes; an f32 is kept as its bit pattern.                   *)
(***************************************************************************)
Zeros(n) == [i \in 1..n |-> 0]

\* u16::from_be_bytes, the other byte order
U16BE(b0, b1) == b1 + 256 * b0

\* u16::from_le_bytes([b0, b1]) (publisher.rs:148, 185)
U16LE(b0, b1) == b0 + 256 * b1

\* f32::from_le_bytes([b0, b1, b2, b3]), as the bit pattern (publisher.rs:191-205)
F32LE(b0, b1, b2, b3) == b0 + 256 * b1 + 65536 * b2 + 16777216 * b3

\* the datagrams that are generated: a header with a protocol byte and a
\* declared number_of_pcs, a body of commands, and the whole cut short by
\* one byte, left as it is, or followed by one more byte
IdVals == {1, 258}
CmdProtoVals == {10, 20, 30, 7}
ActiveBytes == {<<0, 0, 0, 0>>, <<0, 0, 128, 63>>}
ReactiveBytes == {<<0, 0, 0, 64>>}
CmdBytes == {<<id % 256, id \div 256, cp>> \o ap \o rp \o Zeros(16) :
                id \in IdVals, cp \in CmdProtoVals, ap \in ActiveBytes, rp \in ReactiveBytes}
RECURSIVE Bodies(_)
Bodies(k) ==
    IF k = 0 THEN {<<>>}
    ELSE {b \o c : b \in Bodies(k - 1), c \in CmdBytes}
Datagram(proto, n, body, delta) ==
    LET full == <<proto>> \o Zeros(8) \o <<n % 256, n \div 256>> \o Zeros(16) \o body
    IN  IF delta < 0 THEN SubSeq(full, 1, Len(full) - 1)
        ELSE IF delta > 0 THEN Append(full, 0)
        ELSE full
Datagrams ==
    {Datagram(proto, n, body, delta) :
        proto \in {PLC_PROTOCOL, 10}, n \in 0..MaxCmds,
        body \in UNION {Bodies(k) : k \in 0..MaxCmds}, delta \in {-1, 0, 1}}

\* publisher.rs:182-219: the command at `offset`
ParseCmd(data, offset) ==
    [pcs_logical_id |-> U16LE(data[offset + 1], data[offset + 2]),
     protocol |-> data[offset + 3],
     pcs_active_power |-> F32LE(data[offset + 4], data[offset + 5],
                                data[offset + 6], data[offset + 7]),
     pcs_reactive_power |-> F32LE(data[offset + 8], data[offset + 9],
                                  data[offset + 10], data[offset + 11]),
     spare |-> SubSeq(data, offset + 12, offset + PCS_CMD_SIZE)]

PlcErr == [ok |-> FALSE, number_of_pcs |-> 0, pcs_cmds |-> <<>>]

\* publisher.rs:88-233
deserialize_stplccmdall(data) ==
    IF Len(data) < HEADER_SIZE THEN PlcErr
    ELSE IF data[1] # PLC_PROTOCOL THEN PlcErr
    ELSE LET number_of_pcs == U16LE(data[10], data[11])
         IN  IF Len(data) < HEADER_SIZE + number_of_pcs * PCS_CMD_SIZE THEN PlcErr
             ELSE [ok |-> TRUE,
                   number_of_pcs |-> number_of_pcs,
                   pcs_cmds |-> [i \in 1..number_of_pcs |->
                                    ParseCmd(data, HEADER_SIZE + (i - 1) * PCS_CMD_SIZE)]]

(***************************************************************************)
(* parse_mac (threads/publisher.rs:571-610) on a string given as the       *)
(* sequence of its characters.                                             *)
(***************************************************************************)
UpperHex == <<"0", "1", "2", "3", "4", "5", "6", "7", "8", "9",
              "A", "B", "C", "D", "E", "F">>
LowerHex == <<"a", "b", "c", "d", "e", "f">>

\* char::is_ascii_hexdigit
IsHex(c) ==
    \/ \E i \in 1..Len(UpperHex) : UpperHex[i] = c
    \/ \E i \in 1..Len(LowerHex) : LowerHex[i] = c

\* value of a hexadecimal digit
HexVal(c) ==
    IF \E i \in 1..Len(UpperHex) : UpperHex[i] = c
    THEN (CHOOSE i \in 1..Len(UpperHex) : UpperHex[i] = c) - 1
    ELSE (CHOOSE i \in 1..Len(LowerHex) : LowerHex[i] = c) + 9

\* publisher.rs:573: s.split(|c| c == ':' || c == '-' || c == '.')
RECURSIVE SplitFrom(_, _, _)
SplitFrom(s, i, cur) ==
    IF i > Len(s) THEN <<cur>>
    ELSE IF s[i] \in {":", "-", "."}
         THEN <<cur>> \o SplitFrom(s, i + 1, <<>>)
         ELSE SplitFrom(s, i + 1, Append(cur, s[i]))

\* publisher.rs:577-587: a part has two characters and u8::from_str_radix
\* takes it (two digits, or a plus sign and one digit)
PartOk(p) ==
    /\ Len(p) = 2
    /\ \/ IsHex(p[1]) /\ IsHex(p[2])
       \/ p[1] = "+" /\ IsHex(p[2])

PartVal(p) == IF p[1] = "+" THEN HexVal(p[2]) ELSE 16 * HexVal(p[1]) + HexVal(p[2])

MacErr == [ok |-> FALSE, mac |-> <<>>]

parse_mac(s) ==
    LET parts == SplitFrom(s, 1, <<>>)
        s_hex == SelectSeq(s, IsHex)
    IN  IF Len(parts) = 6
        THEN IF \A i \in 1..6 : PartOk(parts[i])
             THEN [ok |-> TRUE, mac |-> [i \in 1..6 |-> PartVal(parts[i])]]
             ELSE MacErr
        ELSE IF Len(s_hex) = 12
             THEN [ok |-> TRUE,
                   mac |-> [i \in 1..6 |-> 16 * HexVal(s_hex[2 * i - 1]) + HexVal(s_hex[2 * i])]]
             ELSE MacErr

\* "01:0C:CD:01:00:01", "010CCD010002", "01:0C:CD:01:00:0G", "01:0C:CD:01:00"
MacColon == <<"0", "1", ":", "0", "C", ":", "C", "D", ":", "0", "1", ":", "0", "0", ":", "0", "1">>
MacPlain == <<"0", "1", "0", "C", "C", "D", "0", "1", "0", "0", "0", "2">>
MacBadHex == <<"0", "1", ":", "0", "C", ":", "C", "D", ":", "0", "1", ":", "0", "0", ":", "0", "G">>
MacShort == <<"0", "1", ":", "0", "C", ":", "C", "D", ":", "0", "1", ":", "0", "0">>

\* the configs that are generated: valid ones, and valid ones with one defect
ValidConfigs ==
    {[src_addr |-> src, dst_addr |-> MacColon, appid |-> 8, number_of_pcs |-> n,
      gocb_ref |-> "gocb", dat_set |-> "ds", goose_id |-> "go"] :
        src \in {MacColon, MacPlain}, n \in 1..MaxCmds}
DefectConfigs ==
    LET v == [src_addr |-> MacColon, dst_addr |-> MacColon, appid |-> 8, number_of_pcs |-> 1,
              gocb_ref |-> "gocb", dat_set |-> "ds", goose_id |-> "go"]
    IN  {[v EXCEPT !.src_addr = MacBadHex], [v EXCEPT !.dst_addr = MacShort],
         [v EXCEPT !.appid = 0], [v EXCEPT !.number_of_pcs = 0],
         [v EXCEPT !.gocb_ref = ""], [v EXCEPT !.dat_set = ""], [v EXCEPT !.goose_id = ""]}
ConfigLists == UNION {[1..k -> ValidConfigs \cup DefectConfigs] : k \in 0..MaxConfigs}

IECBoolean(b) == [type |-> "boolean", v |-> b]
IECFloat32(bits) == [type |-> "float32", v |-> bits]

\* the APPID test left out
AppidAny(cfg) == TRUE

\* publisher.rs:494-496
AppidValid(cfg) == cfg.appid # 0

\* publisher.rs:459-516: the tests a config has to pass
ConfigValid(cfg) ==
    /\ parse_mac(cfg.src_addr).ok
    /\ parse_mac(cfg.dst_addr).ok
    /\ AppidValid(cfg)
    /\ cfg.number_of_pcs # 0
    /\ cfg.gocb_ref # ""
    /\ cfg.dat_set # ""
    /\ cfg.goose_id # ""

\* publisher.rs:518-553: the frame of one config
FrameOfConfig(cfg) ==
    [srcAddr |-> parse_mac(cfg.src_addr).mac,
     dstAddr |-> parse_mac(cfg.dst_addr).mac,
     APPID |-> cfg.appid,
     goID |-> cfg.goose_id,
     stNum |-> 0,
     sqNum |-> 0,
     numDatSetEntries |-> cfg.number_of_pcs * ENTRIES_PER_PCS,
     allData |-> [i \in 1..(2 * cfg.number_of_pcs) |-> IECBoolean(FALSE)]
                 \o [i \in 1..(2 * cfg.number_of_pcs) |-> IECFloat32(0)]]

\* publisher.rs:449-567 on a list of configs.  The loop leaves with the
\* first config that fails a test, and the frames built so far are lost.
init_publisher_goose_frames_of(configs) ==
    IF Len(configs) = 0 THEN [ok |-> FALSE, frames |-> <<>>]
    ELSE IF \E i \in 1..Len(configs) : ~ConfigValid(configs[i])
         THEN [ok |-> FALSE, frames |-> <<>>]
         ELSE [ok |-> TRUE, frames |-> [i \in 1..Len(configs) |-> FrameOfConfig(configs[i])]]

\* publisher.rs:640-662: the two booleans of one command
CmdFlags(cmd) ==
    IF cmd.protocol = 10 THEN <<IECBoolean(TRUE), IECBoolean(FALSE)>>
    ELSE IF cmd.protocol = 20 THEN <<IECBoolean(FALSE), IECBoolean(TRUE)>>
    ELSE IF cmd.protocol = 30 THEN <<IECBoolean(TRUE), IECBoolean(TRUE)>>
    ELSE <<IECBoolean(FALSE), IECBoolean(FALSE)>>

\* publisher.rs:667-675: the two floats of one command
CmdPowers(cmd) == <<IECFloat32(cmd.pcs_active_power), IECFloat32(cmd.pcs_reactive_power)>>

\* the second pass made to read the commands from the start of the datagram
PowersFromStart(cmds, cmd_position, i) == CmdPowers(cmds[i])

\* publisher.rs:668: the command the second pass reads for entry i
PowersAt(cmds, cmd_position, i) == CmdPowers(cmds[i + cmd_position])

RECURSIVE Flatten(_)
Flatten(ss) == IF Len(ss) = 0 THEN <<>> ELSE Head(ss) \o Flatten(Tail(ss))

\* publisher.rs:639-675: the allData built from entries_count commands
FilledAllData(cmds, cmd_position, entries_count) ==
    Flatten([i \in 1..entries_count |-> CmdFlags(cmds[i + cmd_position])])
    \o Flatten([i \in 1..entries_count |-> PowersAt(cmds, cmd_position, i)])

\* publisher.rs:617-678 on frames with their contents: the loop from frame i
RECURSIVE AssignFrom(_, _, _, _)
AssignFrom(fs, i, cmd_position, cmds) ==
    IF i > Len(fs) THEN fs
    ELSE LET entries_count == fs[i].numDatSetEntries \div ENTRIES_PER_PCS
             cleared == [fs EXCEPT ![i].sqNum = 0, ![i].allData = <<>>]
         IN  IF cmd_position + entries_count > Len(cmds)
             THEN cleared
             ELSE AssignFrom(
                      [cleared EXCEPT ![i].allData =
                                          FilledAllData(cmds, cmd_position, entries_count)],
                      i + 1, cmd_position + entries_count, cmds)

StPlcCmdAll_assign_to_goose_frame(cmds, fs) == AssignFrom(fs, 1, 0, cmds)

PlcInit ==
    /\ ing_pc = "start"
    /\ plc_configs = <<>>
    /\ plc_init = [ok |-> FALSE, frames |-> <<>>]
    /\ plc_dgram = <<>>
    /\ plc_result = deserialize_stplccmdall(<<>>)
    /\ plc_frames = <<>>

\* the frames are initialised from a list of configs
PlcInitFrames ==
    /\ ing_pc = "start"
    /\ \E configs \in ConfigLists :
        /\ plc_configs' = configs
        /\ plc_init' = init_publisher_goose_frames_of(configs)
        /\ plc_frames' = init_publisher_goose_frames_of(configs).frames
    /\ ing_pc' = "inited"
    /\ UNCHANGED <<plc_dgram, plc_result>>
    /\ UNCHANGED notPlc

\* a datagram arrives and is deserialized
PlcDatagram ==
    /\ ing_pc = "inited"
    /\ plc_init.ok
    /\ \E data \in Datagrams :
        /\ plc_dgram' = data
        /\ plc_result' = deserialize_stplccmdall(data)
    /\ ing_pc' = "received"
    /\ UNCHANGED <<plc_configs, plc_init, plc_frames>>
    /\ UNCHANGED notPlc

\* the commands of an accepted datagram are assigned to the frames
PlcAssignFrames ==
    /\ ing_pc = "received"
    /\ plc_result.ok
    /\ plc_frames' = StPlcCmdAll_assign_to_goose_frame(plc_result.pcs_cmds, plc_frames)
    /\ ing_pc' = "assigned"
    /\ UNCHANGED <<plc_configs, plc_init, plc_dgram, plc_result>>
    /\ UNCHANGED notPlc

(***************************************************************************)
(* SubscriberPCSData::extract_and_apply_commands (pcs/types.rs:184-270)    *)
(* on one record.  update_from_goose stores the allData of an accepted     *)
(* frame; the extraction reads the record's copy.                          *)
(***************************************************************************)
IECInt32(n) == [type |-> "int32", v |-> n]

\* goose/types.rs:65-70
as_bool(d) == IF d.type = "boolean" THEN [some |-> TRUE, v |-> d.v] ELSE [some |-> FALSE]

\* goose/types.rs:129-134
as_f32(d) == IF d.type = "float32" THEN [some |-> TRUE, v |-> d.v] ELSE [some |-> FALSE]

\* the allData that are generated: for N PCS, 2N booleans (all false, all
\* true, or alternating from either value) and 2N floats (the float at
\* position k is 10 + k), with the entry at position wrong, if any, replaced
\* by an int32, and without the last entry when cut
BoolPatterns == 0..3
BoolAt(pat, k) ==
    CASE pat = 0 -> FALSE
      [] pat = 1 -> TRUE
      [] pat = 2 -> (k % 2 = 0)
      [] OTHER   -> (k % 2 = 1)
MkAllData(N, pat, wrong, cut) ==
    [k \in 1..(IF cut THEN 4 * N - 1 ELSE 4 * N) |->
        IF k = wrong THEN IECInt32(7)
        ELSE IF k <= 2 * N THEN IECBoolean(BoolAt(pat, k))
        ELSE IECFloat32(10 + k)]

\* pcs/types.rs:88-103: SubscriberPCSData::new
ExtRecNew ==
    [allData |-> <<>>, active_power_enable |-> FALSE, reactive_power_enable |-> FALSE,
     active_power_feedback |-> 0, reactive_power_feedback |-> 0]

\* pcs/types.rs:9-26: the record has no flag that marks one of its command
\* fields invalid; the set of fields so marked is empty whatever it holds
InvalidFlags(rec) == {}

\* Vec::get with a 0-based index
Get(all, idx) == IF idx < Len(all) THEN [some |-> TRUE, d |-> all[idx + 1]] ELSE [some |-> FALSE]

\* the floats read from the start of allData
FloatStartAtZero(pcs_index, total_pcs_count) == pcs_index * 2

\* pcs/types.rs:206
FloatStart(pcs_index, total_pcs_count) == total_pcs_count * 2 + pcs_index * 2

\* pcs/types.rs:211-220, 223-231: one enable flag
ApplyEnable(old, all, idx) ==
    IF Get(all, idx).some /\ as_bool(Get(all, idx).d).some
    THEN as_bool(Get(all, idx).d).v ELSE old

\* pcs/types.rs:234-247, 250-263: one feedback, after its enable was set
ApplyFeedback(old, enable, all, idx) ==
    IF Get(all, idx).some /\ as_f32(Get(all, idx).d).some
    THEN IF enable THEN as_f32(Get(all, idx).d).v ELSE 0
    ELSE old

\* pcs/types.rs:184-270
extract_and_apply_commands(rec, pcs_index, total_pcs_count) ==
    IF Len(rec.allData) < total_pcs_count * ENTRIES_PER_PCS
    THEN [ok |-> FALSE, rec |-> rec]
    ELSE LET all == rec.allData
             p_enable_idx == pcs_index * 2
             q_enable_idx == pcs_index * 2 + 1
             p_setpoint_idx == FloatStart(pcs_index, total_pcs_count)
             q_setpoint_idx == FloatStart(pcs_index, total_pcs_count) + 1
             p_en == ApplyEnable(rec.active_power_enable, all, p_enable_idx)
             q_en == ApplyEnable(rec.reactive_power_enable, all, q_enable_idx)
         IN  [ok |-> TRUE,
              rec |-> [rec EXCEPT
                  !.active_power_enable = p_en,
                  !.reactive_power_enable = q_en,
                  !.active_power_feedback = ApplyFeedback(@, p_en, all, p_setpoint_idx),
                  !.reactive_power_feedback = ApplyFeedback(@, q_en, all, q_setpoint_idx)]]

NoCall == [pcs_index |-> 0, total_pcs_count |-> 0, ok |-> FALSE, before |-> ExtRecNew]

ExtInit ==
    /\ ext_rec = ExtRecNew
    /\ ext_pc = "idle"
    /\ ext_call = NoCall
    /\ nExt = 0

\* pcs/types.rs:117-147: update_from_goose stores the allData of a frame
ExtStore ==
    /\ ext_pc \in {"idle", "applied"}
    /\ nExt < MaxExtractions
    /\ nExt' = nExt + 1
    /\ \E N \in 1..MaxPcsCount, pat \in BoolPatterns, cut \in BOOLEAN :
         \E wrong \in 0..(4 * N) :
            ext_rec' = [ext_rec EXCEPT !.allData = MkAllData(N, pat, wrong, cut)]
    /\ ext_pc' = "stored"
    /\ UNCHANGED ext_call
    /\ UNCHANGED notExt

\* worker.rs:75-104: the extraction is called for the record
ExtApply ==
    /\ ext_pc = "stored"
    /\ \E N \in 1..MaxPcsCount, i \in 0..(MaxPcsCount - 1) :
        LET r == extract_and_apply_commands(ext_rec, i, N)
        IN  /\ ext_rec' = r.rec
            /\ ext_call' = [pcs_index |-> i, total_pcs_count |-> N, ok |-> r.ok,
                            before |-> ext_rec]
    /\ ext_pc' = "applied"
    /\ UNCHANGED nExt
    /\ UNCHANGED notExt

(***************************************************************************)
(* get_stpcsimage and the global LIFECOUNTER (plc/com.rs:8-115).  A call   *)
(* builds the image from the PCS maps and then stamps it with one          *)
(* fetch_add on the counter.  The counter is a u64; the model stops long   *)
(* before it wraps and reset_lifecounter, which no code calls, is left out.*)
(***************************************************************************)
CallerIds == 1..NumCallers

\* a plain load in place of the read-modify-write
LoadOnly(counter) == [ret |-> counter, new |-> counter]

\* plc/com.rs:112: AtomicU64::fetch_add(1, SeqCst)
fetch_add(counter) == [ret |-> counter, new |-> counter + 1]

LcInit ==
    /\ LIFECOUNTER = 0
    /\ lc_pc = [c \in CallerIds |-> "idle"]
    /\ lc_started = [c \in CallerIds |-> 0]
    /\ lc_images = <<>>

\* plc/com.rs:21-109: a caller enters get_stpcsimage and builds the image
get_stpcsimage_build(c) ==
    /\ lc_pc[c] = "idle"
    /\ Len(lc_images) + Cardinality({d \in CallerIds : lc_pc[d] = "building"}) < MaxImages
    /\ lc_pc' = [lc_pc EXCEPT ![c] = "building"]
    /\ lc_started' = [lc_started EXCEPT ![c] = Len(lc_images)]
    /\ UNCHANGED <<LIFECOUNTER, lc_images>>
    /\ UNCHANGED notLc

\* plc/com.rs:111-114: the image is stamped and returned
get_stpcsimage_stamp(c) ==
    /\ lc_pc[c] = "building"
    /\ LIFECOUNTER' = fetch_add(LIFECOUNTER).new
    /\ lc_images' = Append(lc_images,
           [caller |-> c, lifecounter |-> fetch_add(LIFECOUNTER).ret,
            started |-> lc_started[c]])
    /\ lc_pc' = [lc_pc EXCEPT ![c] = "idle"]
    /\ UNCHANGED lc_started
    /\ UNCHANGED notLc

(***************************************************************************)
(* load_nameplates_from_csv (pcs/nameplate.rs:83-235).  A string is a      *)
(* sequence of characters; an Option is a sequence of no or one value.     *)
(***************************************************************************)
None == <<>>
Some(x) == <<x>>

\* str::trim, for strings whose only whitespace is the space
Trim(s) ==
    IF \A i \in 1..Len(s) : s[i] = " " THEN <<>>
    ELSE LET a == CHOOSE i \in 1..Len(s) :
                      s[i] # " " /\ \A j \in 1..(i - 1) : s[j] = " "
             b == CHOOSE i \in 1..Len(s) :
                      s[i] # " " /\ \A j \in (i + 1)..Len(s) : s[j] = " "
         IN  SubSeq(s, a, b)

\* nameplate.rs:106-168: trim a string field, an empty one becomes None
Normalize(field) ==
    IF field = None THEN None
    ELSE IF Trim(field[1]) = <<>> THEN None ELSE Some(Trim(field[1]))

RECURSIVE HexNumber(_, _)
HexNumber(s, acc) ==
    IF s = <<>> THEN acc ELSE HexNumber(Tail(s), 16 * acc + HexVal(Head(s)))

\* pcs/publisher.rs:260-265: parse_hex_u16, the number a goose_appid string
\* stands for (0x prefix optional, hexadecimal, 16 bits); ok is FALSE when
\* the string is no such number
parse_hex_u16(str) ==
    LET s == Trim(str)
        d == IF Len(s) >= 2 /\ s[1] = "0" /\ s[2] = "x" THEN SubSeq(s, 3, Len(s)) ELSE s
    IN  IF d # <<>> /\ Len(d) <= 4 /\ \A i \in 1..Len(d) : IsHex(d[i])
        THEN [ok |-> TRUE, v |-> HexNumber(d, 0)]
        ELSE [ok |-> FALSE, v |-> 0]

\* the rows that are generated
AppidStrings ==
    {<<" ">>, <<"0">>, <<"0", "x", "0", "1">>, <<"0", "1">>, <<"0", "x", "0", "2">>}
RawRows ==
    [parsed : {TRUE},
     goose_appid : {None} \cup {Some(s) : s \in AppidStrings},
     logical_id : {None, Some(0), Some(1), Some(2)},
     pcs_type : {None, Some(<<" ">>), Some(<<"A", " ">>)},
     feed_line_id : {Some(0), Some(101)}]
    \cup {[parsed |-> FALSE, goose_appid |-> None, logical_id |-> None,
           pcs_type |-> None, feed_line_id |-> None]}

\* nameplate.rs:170-202: the row fails validation
Bad(record, seenG, seenL) ==
    \/ record.goose_appid # None /\
           (record.goose_appid[1] = <<>> \/ record.goose_appid[1] \in seenG)
    \/ record.logical_id # None /\
           (record.logical_id[1] = 0 \/ record.logical_id[1] \in seenL)
    \/ record.pcs_type = None

\* nameplate.rs:99-230: one iteration of the loop over the rows; the result
\* is the loaded list and the two seen sets after the row
LoadRow(raw, cfgs, seenG, seenL) ==
    IF ~raw.parsed
    THEN [configs |-> cfgs, seen_goose |-> seenG, seen_logical |-> seenL, loaded |-> FALSE]
    ELSE LET record == [raw EXCEPT !.goose_appid = Normalize(@),
                                   !.pcs_type = Normalize(@)]
         IN  IF Bad(record, seenG, seenL) \/ record.feed_line_id = Some(0)
             THEN [configs |-> cfgs, seen_goose |-> seenG, seen_logical |-> seenL,
                   loaded |-> FALSE]
             ELSE [configs |-> Append(cfgs, record),
                   seen_goose |-> seenG \cup {record.goose_appid[i] : i \in 1..Len(record.goose_appid)},
                   seen_logical |-> seenL \cup {record.logical_id[i] : i \in 1..Len(record.logical_id)},
                   loaded |-> TRUE]

NoRow == [row |-> [parsed |-> FALSE, goose_appid |-> None, logical_id |-> None,
                   pcs_type |-> None, feed_line_id |-> None],
          loaded |-> FALSE, before |-> <<>>]

NmInit ==
    /\ nm_configs = <<>>
    /\ seen_goose = {}
    /\ seen_logical = {}
    /\ nRows = 0
    /\ nm_last = NoRow

\* nameplate.rs:99-231: the loader reads the next row of the file
load_nameplates_from_csv_row ==
    /\ nRows < MaxRows
    /\ nRows' = nRows + 1
    /\ \E raw \in RawRows :
        LET r == LoadRow(raw, nm_configs, seen_goose, seen_logical)
        IN  /\ nm_configs' = r.configs
            /\ seen_goose' = r.seen_goose
            /\ seen_logical' = r.seen_logical
            /\ nm_last' = [row |-> raw, loaded |-> r.loaded, before |-> nm_configs]
    /\ UNCHANGED notNm

(***************************************************************************)
(* The ingress pipeline of run() (main.rs:112-149) and the worker loop     *)
(* (worker.rs:35-118).  A receiver filters a packet by EtherType, takes a  *)
(* pooled buffer, copies the packet in and offers it to the bounded        *)
(* channel with try_send; a refused message is dropped on the spot, which  *)
(* hands its buffer back (PooledBuffer::drop).  A worker owns the message  *)
(* for one iteration of its loop.  In the program the pool holds 8192      *)
(* buffers and the channel 16384 messages.                                 *)
(***************************************************************************)
\* nothing in the hands of a thread
NoBuffer == [id |-> 0, len |-> 0]

Holding(pc, buffer) == [pc |-> pc, buffer |-> buffer]

\* a refused message that is forgotten instead of dropped
try_send_forgets(ch, msg) ==
    IF Len(ch) < IngressChanCap
    THEN [chan |-> Append(ch, msg), refused |-> <<>>]
    ELSE [chan |-> ch, refused |-> <<>>]

\* main.rs:129 / 145: Sender::try_send on the bounded channel; a full
\* channel gives the message back in the error
try_send(ch, msg) ==
    IF Len(ch) < IngressChanCap
    THEN [chan |-> Append(ch, msg), refused |-> <<>>]
    ELSE [chan |-> ch, refused |-> <<msg>>]

IgrQuiet == [kind |-> "none", pool |-> <<>>, chan |-> <<>>]

IgrInit ==
    /\ igr_pool = BufferPool_new
    /\ igr_chan = <<>>
    /\ igr_rcv = [l \in LanIds |-> Holding("next", NoBuffer)]
    /\ igr_wk = [w \in WorkerIds |-> Holding("recv", NoBuffer)]
    /\ igr_last = IgrQuiet

\* main.rs:125-127 / 141-143: rx.next() yields a packet; one that is not
\* GOOSE is skipped, for one that is the receiver calls acquire()
IgrPacket(l) ==
    /\ igr_rcv[l].pc = "next"
    /\ \E goose \in BOOLEAN :
        IF ~goose
        THEN /\ igr_last' = [kind |-> "filtered", pool |-> igr_pool, chan |-> igr_chan]
             /\ UNCHANGED <<igr_pool, igr_rcv>>
        ELSE IF PopSucceeds(igr_pool)
        THEN /\ igr_pool' = Tail(igr_pool)
             /\ igr_rcv' = [igr_rcv EXCEPT ![l] = Holding("acquired", Head(igr_pool))]
             /\ igr_last' = [kind |-> "acquired", pool |-> igr_pool, chan |-> igr_chan]
        ELSE /\ igr_last' = [kind |-> "pool_empty", pool |-> igr_pool, chan |-> igr_chan]
             /\ UNCHANGED <<igr_pool, igr_rcv>>
    /\ UNCHANGED <<igr_chan, igr_wk>>
    /\ UNCHANGED notIgr

\* main.rs:128-129 / 144-145: copy_from_slice, then try_send; the refused
\* message is dropped: PooledBuffer::drop up to the push
IgrSend(l) ==
    /\ igr_rcv[l].pc = "acquired"
    /\ \E len \in 1..MaxLen :
        LET msg == [lan_id |-> l, data |-> [igr_rcv[l].buffer EXCEPT !.len = len]]
            r == try_send(igr_chan, msg)
        IN  /\ igr_chan' = r.chan
            /\ igr_rcv' = [igr_rcv EXCEPT ![l] =
                   IF r.refused = <<>> THEN Holding("next", NoBuffer)
                   ELSE Holding("dropping", drop_clear(r.refused[1].data))]
            /\ igr_last' = [kind |-> IF Len(r.chan) > Len(igr_chan) THEN "sent" ELSE "full",
                            pool |-> igr_pool, chan |-> igr_chan]
    /\ UNCHANGED <<igr_pool, igr_wk>>
    /\ UNCHANGED notIgr

\* buffer_pool.rs:74: the push that ends the drop of the refused message
IgrReturn(l) ==
    /\ igr_rcv[l].pc = "dropping"
    /\ igr_pool' = push(igr_pool, igr_rcv[l].buffer)
    /\ igr_rcv' = [igr_rcv EXCEPT ![l] = Holding("next", NoBuffer)]
    /\ igr_last' = [kind |-> "returned", pool |-> igr_pool, chan |-> igr_chan]
    /\ UNCHANGED <<igr_chan, igr_wk>>
    /\ UNCHANGED notIgr

\* worker.rs:35: rx.recv() hands the worker the oldest message
IgrWorkerRecv(w) ==
    /\ igr_wk[w].pc = "recv"
    /\ igr_chan # <<>>
    /\ igr_wk' = [igr_wk EXCEPT ![w] = Holding("busy", Head(igr_chan).data)]
    /\ igr_chan' = Tail(igr_chan)
    /\ igr_last' = [kind |-> "received", pool |-> igr_pool, chan |-> igr_chan]
    /\ UNCHANGED <<igr_pool, igr_rcv>>
    /\ UNCHANGED notIgr

\* worker.rs:36-117: the packet is processed and, at the end of the
\* iteration, packet_data is dropped
IgrWorkerDone(w) ==
    /\ igr_wk[w].pc = "busy"
    /\ igr_pool' = push(igr_pool, drop_clear(igr_wk[w].buffer))
    /\ igr_wk' = [igr_wk EXCEPT ![w] = Holding("recv", NoBuffer)]
    /\ igr_last' = [kind |-> "processed", pool |-> igr_pool, chan |-> igr_chan]
    /\ UNCHANGED <<igr_chan, igr_rcv>>
    /\ UNCHANGED notIgr

(***************************************************************************)
(* The worker's handling of a command frame (worker.rs:35-112) next to     *)
(* update_signal (main.rs:85), the RetransmitSignal the publisher waits on *)
(* (main.rs:420).  The worker is spawned without the signal                *)
(* (worker.rs:13-18).                                                      *)
(***************************************************************************)
\* the four command fields of a record
CommandFields(rec) ==
    <<rec.active_power_enable, rec.reactive_power_enable,
      rec.active_power_feedback, rec.reactive_power_feedback>>

CmdQuiet == [kind |-> "none", accepted |-> FALSE, changed |-> FALSE]

CmdInit ==
    /\ cmd_rec = ExtRecNew
    /\ cmd_signal = FALSE
    /\ cmd_last = CmdQuiet

\* worker.rs:35-112: a frame is decoded; update_with_index stores it in the
\* record or refuses it; for a stored frame the commands are extracted with
\* pcs_index 0 and total_pcs_count 1 and the result is logged
CmdWorkerFrame ==
    /\ \E updated \in BOOLEAN, pat \in BoolPatterns, cut \in BOOLEAN, wrong \in 0..ENTRIES_PER_PCS :
        IF ~updated
        THEN /\ cmd_last' = [kind |-> "frame", accepted |-> FALSE, changed |-> FALSE]
             /\ UNCHANGED cmd_rec
        ELSE LET stored == [cmd_rec EXCEPT !.allData = MkAllData(1, pat, wrong, cut)]
                 r == extract_and_apply_commands(stored, 0, 1)
             IN  /\ cmd_rec' = r.rec
                 /\ cmd_last' = [kind |-> "frame", accepted |-> TRUE,
                                 changed |-> CommandFields(r.rec) # CommandFields(cmd_rec)]
    /\ UNCHANGED cmd_signal
    /\ UNCHANGED notCmd

\* main.rs:420, retransmit_signal.rs:35-58: the publisher's wait consumes
\* the flag
CmdPublisherWait ==
    /\ cmd_signal' = FALSE
    /\ cmd_last' = [kind |-> "wait", accepted |-> FALSE, changed |-> FALSE]
    /\ UNCHANGED cmd_rec
    /\ UNCHANGED notCmd

(***************************************************************************)
(* The worker's command extraction over the two LAN stores                 *)
(* (worker.rs:49-98): the frame is stored through update_with_index with   *)
(* its lan_id and the commands are extracted on the entry of               *)
(* pcs_all_lan1 or pcs_all_lan2 that `match lan_id` selects.               *)
(***************************************************************************)
LanQuiet == [lan_id |-> 0, accepted |-> FALSE, n |-> 0]

LanInit ==
    /\ lan_rec = [l \in LanIds |-> ExtRecNew]
    /\ lan_last = LanQuiet

\* worker.rs:35-112 for a frame received on LAN lan_id
LanWorkerFrame(lan_id) ==
    /\ lan_last.n < MaxExtractions
    /\ \E updated \in BOOLEAN, pat \in BoolPatterns, cut \in BOOLEAN, wrong \in 0..ENTRIES_PER_PCS :
        IF ~updated
        THEN /\ lan_last' = [lan_id |-> lan_id, accepted |-> FALSE, n |-> lan_last.n + 1]
             /\ UNCHANGED lan_rec
        ELSE LET stored == [lan_rec[lan_id] EXCEPT !.allData = MkAllData(1, pat, wrong, cut)]
                 r == extract_and_apply_commands(stored, 0, 1)
             IN  /\ lan_rec' = [lan_rec EXCEPT ![lan_id] = r.rec]
                 /\ lan_last' = [lan_id |-> lan_id, accepted |-> TRUE, n |-> lan_last.n + 1]
    /\ UNCHANGED notLan

(***************************************************************************)
(* The backoff of the two schedulers, with time left out: every tick of    *)
(* the retransmit thread (retransmit.rs:76-196) is woken by new data or by *)
(* its timeout, every due frame of the publisher thread (main.rs:295-410)  *)
(* is sent with or without an update of its PCS record.  The frames keep   *)
(* the timeAllowedtoLive they were initialised with: neither thread        *)
(* assigns it (retransmit.rs:130 is commented out).                        *)
(***************************************************************************)
TtlQuiet == [by |-> "none", timeAllowedtoLive |-> 0, next_interval_ms |-> 0]

TtlInit ==
    /\ ttl_rt = INITIAL_INTERVAL_MS
    /\ ttl_md = FrameMetadata_new
    /\ ttl_emit = TtlQuiet

\* retransmit.rs:76-196: one iteration of the main loop
TtlRetransmitTick ==
    /\ \E by_new_data \in BOOLEAN :
        LET interval == IF by_new_data THEN INITIAL_INTERVAL_MS ELSE ttl_rt
            next == IF by_new_data THEN interval ELSE NextInterval(interval)
        IN  /\ ttl_rt' = next
            /\ ttl_emit' = [by |-> "retransmit", timeAllowedtoLive |-> PLC_FRAME_TTL_MS,
                            next_interval_ms |-> next]
    /\ UNCHANGED ttl_md
    /\ UNCHANGED notTtl

\* main.rs:295-410: a frame that is due is sent; its record was updated
\* since the last pass or it was not
TtlPublisherSend ==
    /\ ttl_md.sqNum < MaxSq
    /\ ttl_md.stNum < MaxSignals
    /\ \E upd \in BOOLEAN :
        LET rlu == IF upd THEN 1 ELSE NoTime
            md1 == AfterUpdateCheck(ttl_md, rlu, 0)
            md2 == AfterSend(md1, data_was_updated(ttl_md, rlu), 0)
        IN  /\ ttl_md' = md2
            /\ ttl_emit' = [by |-> "publisher", timeAllowedtoLive |-> PCS_FRAME_TTL_MS,
                            next_interval_ms |-> md2.current_interval_ms]
    /\ UNCHANGED ttl_rt
    /\ UNCHANGED notTtl

(***************************************************************************)
(* The frames write lock of the retransmit thread (retransmit.rs:122-161)  *)
(* next to the channel it hands the encoded frames to (goose_tx, a         *)
(* crossbeam Sender: send waits while a bounded channel is full), the      *)
(* GOOSE sender thread that empties the channel, and the PLC ingester      *)
(* that needs the same lock.                                               *)
(***************************************************************************)
HdStep(kind) == [kind |-> kind, lock_held |-> hd_lock = "retransmit", queued |-> hd_chan]

HdInit ==
    /\ hd_lock = "free"
    /\ hd_rt = [pc |-> "wait", idx |-> 0]
    /\ hd_chan = 0
    /\ hd_sender = "running"
    /\ hd_plc = "idle"
    /\ hd_last = [kind |-> "none", lock_held |-> FALSE, queued |-> 0]

\* retransmit.rs:122-123: frames.write() at the start of a burst
HdLockFrames ==
    /\ hd_rt.pc = "wait"
    /\ hd_lock = "free"
    /\ hd_lock' = "retransmit"
    /\ hd_rt' = [pc |-> "burst", idx |-> 1]
    /\ hd_last' = HdStep("lock")
    /\ UNCHANGED <<hd_chan, hd_sender, hd_plc>>
    /\ UNCHANGED notHd

\* retransmit.rs:126-159 for one frame: update, encode, goose_tx.send; the
\* send returns once the channel has room; after the last frame the guard
\* goes out of scope (retransmit.rs:160-161)
HdSendFrame ==
    /\ hd_rt.pc = "burst"
    /\ hd_chan < HandChanCap
    /\ hd_chan' = hd_chan + 1
    /\ hd_last' = HdStep("send")
    /\ IF hd_rt.idx = NumFrames
       THEN /\ hd_rt' = [pc |-> "wait", idx |-> 0]
            /\ hd_lock' = "free"
       ELSE /\ hd_rt' = [hd_rt EXCEPT !.idx = @ + 1]
            /\ UNCHANGED hd_lock
    /\ UNCHANGED <<hd_sender, hd_plc>>
    /\ UNCHANGED notHd

\* pcs_publisher.rs:42-109: the sender takes a frame and puts it on the wire
HdSenderTake ==
    /\ hd_sender = "running"
    /\ hd_chan > 0
    /\ hd_chan' = hd_chan - 1
    /\ hd_last' = HdStep("take")
    /\ UNCHANGED <<hd_lock, hd_rt, hd_sender, hd_plc>>
    /\ UNCHANGED notHd

\* pcs_publisher.rs:52-66: a socket send that stalls, or one that returns
HdSenderPace ==
    /\ hd_sender' = IF hd_sender = "running" THEN "stalled" ELSE "running"
    /\ hd_last' = HdStep("pace")
    /\ UNCHANGED <<hd_lock, hd_rt, hd_chan, hd_plc>>
    /\ UNCHANGED notHd

\* the PLC ingester asks for the frames write lock; once the lock is free
\* it assigns the commands and releases it
HdPlcIngest ==
    /\ IF hd_plc = "idle"
       THEN hd_plc' = "waiting"
       ELSE hd_lock = "free" /\ hd_plc' = "idle"
    /\ hd_last' = HdStep(IF hd_plc = "idle" THEN "request" ELSE "assign")
    /\ UNCHANGED <<hd_lock, hd_rt, hd_chan, hd_sender>>
    /\ UNCHANGED notHd

(***************************************************************************)
(* A tick of the retransmit thread over a frames lock that may be          *)
(* poisoned (retransmit.rs:110-196): frames.write() returns the guard, or, *)
(* once a writer has panicked, the PoisonError whose into_inner() gives    *)
(* the same guard.  An encoded frame is determined by the frame's fields.  *)
(***************************************************************************)
\* the poisoned path with the reset of sqNum left out
TickFramePoisonedKeepsSq(fr, by_new_data) ==
    IF by_new_data
    THEN [fr EXCEPT !.stNum = WrappingAdd1(fr.stNum)]
    ELSE [fr EXCEPT !.sqNum = WrappingAdd1(fr.sqNum)]

\* retransmit.rs:171-176: the per-frame update of the poisoned path
TickFramePoisoned(fr, by_new_data) ==
    IF by_new_data
    THEN [fr EXCEPT !.stNum = WrappingAdd1(fr.stNum), !.sqNum = 0]
    ELSE [fr EXCEPT !.sqNum = WrappingAdd1(fr.sqNum)]

\* retransmit.rs:149 / 179: encodeGooseFrame of a frame
Encoded(fr) == <<fr.stNum, fr.sqNum>>

PsnQuiet ==
    [ticked |-> FALSE, poisoned |-> FALSE, by_new_data |-> FALSE,
     frames |-> <<>>, interval |-> 0, sent |-> <<>>, result |-> "none"]

PsnInit ==
    /\ psn_frames = [f \in FrameIds |-> [stNum |-> 0, sqNum |-> 0]]
    /\ psn_interval = INITIAL_INTERVAL_MS
    /\ psn_poisoned = FALSE
    /\ psn_last = PsnQuiet

\* a writer of the frames panics with the guard alive: the lock is poisoned
\* from then on
PsnWriterPanics ==
    /\ ~psn_poisoned
    /\ psn_poisoned' = TRUE
    /\ psn_last' = PsnQuiet
    /\ UNCHANGED <<psn_frames, psn_interval>>
    /\ UNCHANGED notPsn

\* retransmit.rs:110-196: the tick after a wait that new data or the
\* timeout ended
PsnTick ==
    /\ \A f \in FrameIds : psn_frames[f].sqNum < MaxSq /\ psn_frames[f].stNum < MaxSignals
    /\ \E by_new_data \in BOOLEAN :
        LET interval == IF by_new_data THEN INITIAL_INTERVAL_MS ELSE psn_interval
            after == [f \in FrameIds |->
                         IF psn_poisoned
                         THEN TickFramePoisoned(psn_frames[f], by_new_data)
                         ELSE TickFrame(psn_frames[f], by_new_data)]
        IN  /\ psn_frames' = after
            /\ psn_interval' = IF by_new_data THEN interval ELSE NextInterval(interval)
            /\ psn_last' = [ticked |-> TRUE, poisoned |-> psn_poisoned,
                            by_new_data |-> by_new_data, frames |-> psn_frames,
                            interval |-> psn_interval,
                            sent |-> [f \in FrameIds |-> Encoded(after[f])],
                            result |-> "ok"]
    /\ UNCHANGED psn_poisoned
    /\ UNCHANGED notPsn

(***************************************************************************)
(* StPCSinfo::get_info (plc/types.rs:280-488).                             *)
(***************************************************************************)
\* goose/types.rs:105-110
as_u8(d) == IF d.type = "int8u" THEN [some |-> TRUE, v |-> d.v] ELSE [some |-> FALSE]

\* the allData that are generated: the entry at position k holds 10 + k,
\* as one of three types
InfoTypes == {"float32", "int8u", "int32"}
InfoTypeVectors == UNION {[1..n -> InfoTypes] : n \in 0..MaxInfoLen}
MkInfoData(types) == [k \in 1..Len(types) |-> [type |-> types[k], v |-> 10 + k]]

\* the scalar fields of StPCSinfo, and the name of the position of each in
\* StPCSDataBytePosInAllDataCfg
ScalarFields == {"pcs_realtime_active_power", "pcs_realtime_reactive_power",
                 "pcs_maximum_charging_power", "pcs_maximum_discharging_power",
                 "pcs_maximum_inductive_power", "pcs_maximum_capacitive_power",
                 "pcs_soc"}
PosFields == ScalarFields \cup {"pcs_status"}

\* plc/types.rs:54-71: StPCSinfo::default
InfoDefault ==
    [is_valid |-> 0, is_controllable |-> 0,
     pcs_realtime_active_power |-> 0, pcs_realtime_reactive_power |-> 0,
     pcs_maximum_charging_power |-> 0, pcs_maximum_discharging_power |-> 0,
     pcs_maximum_inductive_power |-> 0, pcs_maximum_capacitive_power |-> 0,
     pcs_soc |-> 0, ok |-> TRUE]

\* a missing entry read as zero
FloatOrZero(alldata, pos) ==
    IF Get(alldata, pos).some /\ as_f32(Get(alldata, pos).d).some
    THEN as_f32(Get(alldata, pos).d).v
    ELSE 0

\* plc/types.rs:312-325 (and 328-421): one scalar field
FloatOrInvalid(alldata, pos) ==
    IF Get(alldata, pos).some
    THEN (IF as_f32(Get(alldata, pos).d).some
          THEN as_f32(Get(alldata, pos).d).v
          ELSE INVALID_VALUE)
    ELSE INVALID_VALUE

\* plc/types.rs:424-473: the status, as a float32 or else as a u8
Controllable(alldata, pos, status_value) ==
    IF Get(alldata, pos).some
    THEN (IF as_f32(Get(alldata, pos).d).some
          THEN (IF as_f32(Get(alldata, pos).d).v \in status_value THEN 1 ELSE 0)
          ELSE IF as_u8(Get(alldata, pos).d).some
          THEN (IF as_u8(Get(alldata, pos).d).v \in status_value THEN 1 ELSE 0)
          ELSE 0)
    ELSE 0

\* plc/types.rs:280-488
get_info(info, found, config, status_value, subscriber) ==
    IF ~found
    THEN [info EXCEPT !.is_valid = IF subscriber.valid THEN 1 ELSE 0,
                      !.is_controllable = 0,
                      !.ok = FALSE]
    ELSE [is_valid |-> IF subscriber.valid THEN 1 ELSE 0,
          pcs_realtime_active_power |->
              FloatOrInvalid(subscriber.alldata, config.pcs_realtime_active_power),
          pcs_realtime_reactive_power |->
              FloatOrInvalid(subscriber.alldata, config.pcs_realtime_reactive_power),
          pcs_maximum_charging_power |->
              FloatOrInvalid(subscriber.alldata, config.pcs_maximum_charging_power),
          pcs_maximum_discharging_power |->
              FloatOrInvalid(subscriber.alldata, config.pcs_maximum_discharging_power),
          pcs_maximum_inductive_power |->
              FloatOrInvalid(subscriber.alldata, config.pcs_maximum_inductive_power),
          pcs_maximum_capacitive_power |->
              FloatOrInvalid(subscriber.alldata, config.pcs_maximum_capacitive_power),
          pcs_soc |-> FloatOrInvalid(subscriber.alldata, config.pcs_soc),
          is_controllable |->
              Controllable(subscriber.alldata, config.pcs_status, status_value),
          ok |-> TRUE]

\* the status values that mean controllable
StatusValues == {11}

GiNoCall == [called |-> FALSE]

GiInit ==
    /\ gi_sub = [valid |-> FALSE, alldata |-> <<>>]
    /\ gi_info = InfoDefault
    /\ gi_in = GiNoCall

\* a GOOSE frame stored in the subscriber record
GiStore ==
    /\ ~gi_in.called
    /\ gi_sub.alldata = <<>>
    /\ \E types \in InfoTypeVectors, valid \in BOOLEAN :
          gi_sub' = [valid |-> valid, alldata |-> MkInfoData(types)]
    /\ UNCHANGED <<gi_info, gi_in>>
    /\ UNCHANGED notGi

\* pack_pcs_info calls get_info on a fresh StPCSinfo
GiCall ==
    /\ ~gi_in.called
    /\ \E found \in BOOLEAN, config \in [PosFields -> 0..MaxInfoLen] :
          /\ gi_info' = get_info(InfoDefault, found, config, StatusValues, gi_sub)
          /\ gi_in' = [called |-> TRUE, found |-> found, config |-> config]
    /\ UNCHANGED gi_sub
    /\ UNCHANGED notGi

(***************************************************************************)
(* The retransmit thread and its RetransmitSignal, return by return of     *)
(* wait_timeout (retransmit.rs:43-161, retransmit_signal.rs:27-54).  The   *)
(* stop flag stays down.  The burst runs under the frames write lock; a    *)
(* signal_reset during it only raises the flag, as one after it does.      *)
(***************************************************************************)
\* a flag that a return of wait_timeout leaves as it found it
FlagLeftRaised(flag) == flag

\* retransmit_signal.rs:39-42, 48-52: the flag after a return of wait_timeout
FlagAfterReturn(flag) == FALSE

StNums(fs) == [f \in FrameIds |-> fs[f].stNum]

CoNoReturn ==
    [valid |-> FALSE, n |-> 0, ret |-> FALSE, loop |-> FALSE, first |-> FALSE,
     st |-> StNums(init_publisher_goose_frames)]

CoNoneDone ==
    [valid |-> FALSE, n |-> 0, ret |-> FALSE, loop |-> FALSE, first |-> FALSE,
     delta |-> [f \in FrameIds |-> 0]]

CoInit ==
    /\ co_reset = FALSE
    /\ co_pc = "s_enter"
    /\ co_first = TRUE
    /\ co_rbnd = FALSE
    /\ co_frames = init_publisher_goose_frames
    /\ co_calls = 0
    /\ co_sigs = 0
    /\ co_last = CoNoReturn
    /\ co_done = CoNoneDone

\* what is noted when wait_timeout returns ret
CoReturn(ret, loop) ==
    /\ co_done' = [valid |-> co_last.valid, n |-> co_last.n, ret |-> co_last.ret,
                   loop |-> co_last.loop, first |-> co_last.first,
                   delta |-> [f \in FrameIds |-> co_frames[f].stNum - co_last.st[f]]]
    /\ co_last' = [valid |-> TRUE, n |-> co_sigs, ret |-> ret, loop |-> loop,
                   first |-> co_first, st |-> StNums(co_frames)]
    /\ co_sigs' = 0

\* signal_reset (retransmit_signal.rs:27-31), by any thread
CoSignalReset ==
    /\ co_calls < MaxCalls
    /\ co_calls' = co_calls + 1
    /\ co_reset' = TRUE
    /\ co_sigs' = co_sigs + 1
    /\ UNCHANGED <<co_pc, co_first, co_rbnd, co_frames, co_last, co_done>>
    /\ UNCHANGED notCo

\* retransmit.rs:51 / 76 with retransmit_signal.rs:36-45: wait_timeout is
\* called; a raised flag is consumed at once, else the thread blocks
CoWaitEnter ==
    /\ co_pc \in {"s_enter", "l_enter"}
    /\ IF co_reset
       THEN /\ co_reset' = FlagAfterReturn(co_reset)
            /\ CoReturn(TRUE, co_pc = "l_enter")
            /\ co_rbnd' = IF co_pc = "l_enter" THEN TRUE ELSE co_rbnd
            /\ co_pc' = IF co_pc = "l_enter" THEN "burst" ELSE "l_enter"
       ELSE /\ co_pc' = IF co_pc = "l_enter" THEN "l_blocked" ELSE "s_blocked"
            /\ UNCHANGED <<co_reset, co_rbnd, co_sigs, co_last, co_done>>
    /\ UNCHANGED <<co_first, co_frames, co_calls>>
    /\ UNCHANGED notCo

\* retransmit.rs:51-56 with retransmit_signal.rs:45-53: the startup wait
\* returns after the condvar
CoStartupWake ==
    /\ co_pc = "s_blocked"
    /\ CoReturn(co_reset, FALSE)
    /\ co_pc' = IF co_reset THEN "l_enter" ELSE "s_enter"
    /\ co_reset' = FlagAfterReturn(co_reset)
    /\ UNCHANGED <<co_first, co_rbnd, co_frames, co_calls>>
    /\ UNCHANGED notCo

\* retransmit.rs:76 with retransmit_signal.rs:45-53: the wait of the main
\* loop returns after the condvar
CoLoopWake ==
    /\ co_pc = "l_blocked"
    /\ (co_reset \/ co_first \/ \A f \in FrameIds : co_frames[f].sqNum < MaxSq)
    /\ CoReturn(co_reset, TRUE)
    /\ co_rbnd' = (co_reset \/ co_first)
    /\ co_reset' = FlagAfterReturn(co_reset)
    /\ co_pc' = "burst"
    /\ UNCHANGED <<co_first, co_frames, co_calls>>
    /\ UNCHANGED notCo

\* retransmit.rs:104-160: the burst that follows a return in the main loop
CoBurst ==
    /\ co_pc = "burst"
    /\ co_frames' = [f \in FrameIds |-> TickFrame(co_frames[f], co_rbnd)]
    /\ co_first' = FALSE
    /\ co_pc' = "l_enter"
    /\ UNCHANGED <<co_reset, co_rbnd, co_calls, co_sigs, co_last, co_done>>
    /\ UNCHANGED notCo

(***************************************************************************)
(* spawn_publisher_thread (main.rs:275-433) run twice over the same passes *)
(* (a pass starts whenever wait_timeout returns, on its timeout or         *)
(* before): once with every update of the PCS records, once with the       *)
(* updates of the record of PCS 1 withheld.                                *)
(***************************************************************************)
\* the PCS whose updates the second run does not see: the first
UpdatedPcs == CHOOSE p \in PcsIds : \A q \in PcsIds : p <= q

\* a slip that would test the newest update of any record for every frame
PassOverAnyUpdate(fs, rlus, sysnow, t) ==
    LET newest == CHOOSE q \in PcsIds : \A r \in PcsIds : rlus[q] >= rlus[r]
    IN  [p \in PcsIds |-> ProcessFrame(fs[p], rlus[newest], sysnow, t)]

\* main.rs:295-416: the for loop over goose_frames of one pass
PassOver(fs, rlus, sysnow, t) ==
    [p \in PcsIds |-> ProcessFrame(fs[p], rlus[p], sysnow, t)]

\* stNum, sqNum, retransmit interval and last-send time of a frame
Timing(md) == <<md.stNum, md.sqNum, md.current_interval_ms, md.last_send>>

IsoInit ==
    /\ iso_real = [p \in PcsIds |-> FrameMetadata_new]
    /\ iso_shadow = [p \in PcsIds |-> FrameMetadata_new]
    /\ iso_rlu = [p \in PcsIds |-> NoTime]
    /\ iso_srlu = [p \in PcsIds |-> NoTime]
    /\ iso_now = 0
    /\ iso_stamp = 0
    /\ iso_nupd = 0

\* the clock advances by one ms
IsoTick ==
    /\ iso_now < MaxPubTime
    /\ iso_now' = iso_now + 1
    /\ UNCHANGED <<iso_real, iso_shadow, iso_rlu, iso_srlu, iso_stamp, iso_nupd>>
    /\ UNCHANGED notIso

\* pcs/types.rs:147: a worker applies a frame to the record of PCS p
IsoUpdate(p) ==
    /\ iso_nupd < MaxUpdates
    /\ iso_nupd' = iso_nupd + 1
    /\ iso_stamp' = iso_stamp + 1
    /\ iso_rlu' = [iso_rlu EXCEPT ![p] = iso_stamp + 1]
    /\ iso_srlu' = IF p = UpdatedPcs THEN iso_srlu
                   ELSE [iso_srlu EXCEPT ![p] = iso_stamp + 1]
    /\ UNCHANGED <<iso_real, iso_shadow, iso_now>>
    /\ UNCHANGED notIso

\* main.rs:290-416: one pass over every frame, in both runs
IsoPass ==
    /\ iso_real' = PassOver(iso_real, iso_rlu, iso_stamp + 1, iso_now)
    /\ iso_shadow' = PassOver(iso_shadow, iso_srlu, iso_stamp + 1, iso_now)
    /\ iso_stamp' = IF \E p \in PcsIds : data_was_updated(iso_real[p], iso_rlu[p])
                    THEN iso_stamp + 1 ELSE iso_stamp
    /\ UNCHANGED <<iso_rlu, iso_srlu, iso_now, iso_nupd>>
    /\ UNCHANGED notIso

(***************************************************************************)
(* The ingress pipeline of run() (main.rs:81, 109-149) with the channel    *)
(* and the pool in the proportion of the program: bounded(16384) against   *)
(* BufferPool::new(8192).                                                  *)
(***************************************************************************)
\* a channel of half as many places as the pool has buffers
DispatchChanCapHalved == PoolCapacity \div 2

\* main.rs:81 against main.rs:109: the channel has twice as many places as
\* the pool has buffers
DispatchChanCap == 2 * PoolCapacity

DqQuiet == [kind |-> "none", chan |-> 0]

DqInit ==
    /\ dq_pool = BufferPool_new
    /\ dq_chan = <<>>
    /\ dq_rcv = [l \in LanIds |-> Holding("next", NoBuffer)]
    /\ dq_wk = [w \in WorkerIds |-> Holding("recv", NoBuffer)]
    /\ dq_last = DqQuiet

\* main.rs:125-127 / 141-143: rx.next() yields a packet; one that is not
\* GOOSE is skipped, for one that is the receiver calls acquire()
DqPacket(l) ==
    /\ dq_rcv[l].pc = "next"
    /\ \E goose \in BOOLEAN :
        IF ~goose
        THEN /\ dq_last' = [kind |-> "filtered", chan |-> Len(dq_chan)]
             /\ UNCHANGED <<dq_pool, dq_rcv>>
        ELSE IF PopSucceeds(dq_pool)
        THEN /\ dq_pool' = Tail(dq_pool)
             /\ dq_rcv' = [dq_rcv EXCEPT ![l] = Holding("acquired", Head(dq_pool))]
             /\ dq_last' = [kind |-> "acquired", chan |-> Len(dq_chan)]
        ELSE /\ dq_last' = [kind |-> "pool_empty", chan |-> Len(dq_chan)]
             /\ UNCHANGED <<dq_pool, dq_rcv>>
    /\ UNCHANGED <<dq_chan, dq_wk>>
    /\ UNCHANGED notDq

\* main.rs:128-129 / 144-145: copy_from_slice, then try_send; a message the
\* full channel refuses is dropped, which puts its buffer back
\* (buffer_pool.rs:66-74)
DqSend(l) ==
    /\ dq_rcv[l].pc = "acquired"
    /\ \E len \in 1..MaxLen :
        LET msg == [lan_id |-> l, data |-> [dq_rcv[l].buffer EXCEPT !.len = len]]
        IN  IF Len(dq_chan) < DispatchChanCap
            THEN /\ dq_chan' = Append(dq_chan, msg)
                 /\ dq_last' = [kind |-> "sent", chan |-> Len(dq_chan)]
                 /\ UNCHANGED dq_pool
            ELSE /\ dq_pool' = push(dq_pool, drop_clear(msg.data))
                 /\ dq_last' = [kind |-> "full", chan |-> Len(dq_chan)]
                 /\ UNCHANGED dq_chan
    /\ dq_rcv' = [dq_rcv EXCEPT ![l] = Holding("next", NoBuffer)]
    /\ UNCHANGED dq_wk
    /\ UNCHANGED notDq

\* worker.rs:35: rx.recv() hands the worker the oldest message
DqWorkerRecv(w) ==
    /\ dq_wk[w].pc = "recv"
    /\ dq_chan # <<>>
    /\ dq_wk' = [dq_wk EXCEPT ![w] = Holding("busy", Head(dq_chan).data)]
    /\ dq_chan' = Tail(dq_chan)
    /\ dq_last' = [kind |-> "received", chan |-> Len(dq_chan)]
    /\ UNCHANGED <<dq_pool, dq_rcv>>
    /\ UNCHANGED notDq

\* worker.rs:36-117: the packet is processed and, at the end of the
\* iteration, packet_data is dropped
DqWorkerDone(w) ==
    /\ dq_wk[w].pc = "busy"
    /\ dq_pool' = push(dq_pool, drop_clear(dq_wk[w].buffer))
    /\ dq_wk' = [dq_wk EXCEPT ![w] = Holding("recv", NoBuffer)]
    /\ dq_last' = [kind |-> "processed", chan |-> Len(dq_chan)]
    /\ UNCHANGED <<dq_chan, dq_rcv>>
    /\ UNCHANGED notDq

Init == SchedInit /\ PcsInit /\ PmsInit /\ PoolInit /\ SigInit /\ MainInit /\ PubInit /\ PlcInit /\ ExtInit /\ LcInit /\ NmInit /\ IgrInit /\ CmdInit /\ LanInit /\ TtlInit /\ HdInit /\ PsnInit /\ GiInit /\ CoInit /\ IsoInit /\ DqInit

Next ==
    \/ StartupStopCheck
    \/ StartupWaitEnter
    \/ StartupWaitWake
    \/ LoopStopCheck
    \/ LoopWaitEnter
    \/ LoopWaitWake
    \/ PostWait
    \/ EmitFrame
    \/ SetStop
    \/ PlcAssign
    \/ signal_reset

Spec == Init /\ [][Next]_vars

\* the steps of the retransmit thread itself; the thread is scheduled and
\* its waits time out, so it does not stay forever where it can step
RetransmitThread ==
    \/ StartupStopCheck
    \/ StartupWaitEnter
    \/ StartupWaitWake
    \/ LoopStopCheck
    \/ LoopWaitEnter
    \/ LoopWaitWake
    \/ PostWait
    \/ EmitFrame

SpecFair == Spec /\ WF_vars(RetransmitThread)

NextPcs ==
    \/ Tick
    \/ \E w \in WorkerIds : WorkerRecv(w)
    \/ \E w \in WorkerIds : WorkerUpdate(w)
    \/ Sweep

SpecPcs == Init /\ [][NextPcs]_vars

NextPms ==
    \/ PmsTick
    \/ PmsWorkerFrame

SpecPms == Init /\ [][NextPms]_vars

NextPool ==
    \/ \E s \in SlotIds : acquire(s)
    \/ \E s \in SlotIds : copy_from_slice(s)
    \/ \E s \in SlotIds : drop_take(s)
    \/ \E s \in SlotIds : drop_push(s)

SpecPool == Init /\ [][NextPool]_vars

NextSig ==
    \/ SigSignalReset
    \/ SigWaitEnter
    \/ SigWaitTick
    \/ SigWake
    \/ SigWaitReturn

SpecSig == Init /\ [][NextSig]_vars

NextMain ==
    \/ run
    \/ \E l \in LanIds : ReceiverPacket(l)
    \/ \E l \in LanIds : ReceiverError(l)
    \/ \E w \in WorkerIds : MainWorkerRecv(w)
    \/ \E w \in WorkerIds : MainWorkerBody(w)
    \/ ValidityStep
    \/ PublisherStep

\* every thread that can run does run; what the network delivers, and
\* whether the main thread is ever unparked, is up to the environment
SpecMain ==
    /\ Init /\ [][NextMain]_vars
    /\ WF_vars(main_pc = "joining" /\ run)
    /\ \A w \in WorkerIds : WF_vars(MainWorkerRecv(w)) /\ WF_vars(MainWorkerBody(w))
    /\ WF_vars(ValidityStep)
    /\ WF_vars(PublisherStep)

NextPub ==
    \/ SpawnWithTransmitters
    \/ PubTick
    \/ \E p \in PcsIds : PcsRecordUpdate(p)
    \/ PublisherPass
    \/ PubWaitTimeout
    \/ PubWaitEarly
    \/ GooseSenderFrame
    \/ GooseSenderClosed

SpecPub == Init /\ [][NextPub]_vars

NextPlc ==
    \/ PlcInitFrames
    \/ PlcDatagram
    \/ PlcAssignFrames

SpecPlc == Init /\ [][NextPlc]_vars

NextExt ==
    \/ ExtStore
    \/ ExtApply

SpecExt == Init /\ [][NextExt]_vars

NextLc ==
    \/ \E c \in CallerIds : get_stpcsimage_build(c)
    \/ \E c \in CallerIds : get_stpcsimage_stamp(c)

SpecLc == Init /\ [][NextLc]_vars

NextNm ==
    \/ load_nameplates_from_csv_row

SpecNm == Init /\ [][NextNm]_vars

NextIgr ==
    \/ \E l \in LanIds : IgrPacket(l)
    \/ \E l \in LanIds : IgrSend(l)
    \/ \E l \in LanIds : IgrReturn(l)
    \/ \E w \in WorkerIds : IgrWorkerRecv(w)
    \/ \E w \in WorkerIds : IgrWorkerDone(w)

SpecIgr == Init /\ [][NextIgr]_vars

NextCmd ==
    \/ CmdWorkerFrame
    \/ CmdPublisherWait

SpecCmd == Init /\ [][NextCmd]_vars

NextLan ==
    \/ \E lan_id \in LanIds : LanWorkerFrame(lan_id)

SpecLan == Init /\ [][NextLan]_vars

NextTtl ==
    \/ TtlRetransmitTick
    \/ TtlPublisherSend

SpecTtl == Init /\ [][NextTtl]_vars

NextHd ==
    \/ HdLockFrames
    \/ HdSendFrame
    \/ HdSenderTake
    \/ HdSenderPace
    \/ HdPlcIngest

SpecHd == Init /\ [][NextHd]_vars

NextPsn ==
    \/ PsnWriterPanics
    \/ PsnTick

SpecPsn == Init /\ [][NextPsn]_vars

NextGi == GiStore \/ GiCall
SpecGi == Init /\ [][NextGi]_vars

NextCo ==
    \/ CoSignalReset
    \/ CoWaitEnter
    \/ CoStartupWake
    \/ CoLoopWake
    \/ CoBurst

SpecCo == Init /\ [][NextCo]_vars

NextIso ==
    \/ IsoTick
    \/ \E p \in PcsIds : IsoUpdate(p)
    \/ IsoPass

SpecIso == Init /\ [][NextIso]_vars

NextDq ==
    \/ \E l \in LanIds : DqPacket(l)
    \/ \E l \in LanIds : DqSend(l)
    \/ \E w \in WorkerIds : DqWorkerRecv(w)
    \/ \E w \in WorkerIds : DqWorkerDone(w)

SpecDq == Init /\ [][NextDq]_vars

(***************************************************************************)
(* Claims about the retransmit scheduler (specification Spec).             *)
(***************************************************************************)
Emitted(f) == lastEmit[f] # NoEmit

\* stNum of the emission before the last one (the frame's initial 0 if none)
PrevEmittedSt(f) == IF prevEmit[f] = NoEmit THEN 0 ELSE prevEmit[f].st

LexLess(a, b) == a.st < b.st \/ (a.st = b.st /\ a.sq < b.sq)

\* C1: the first emission of every frame after a signal_reset call carries
\* stNum = previously emitted stNum + 1 and sqNum = 0, wherever the call
\* falls relative to the thread's wait and burst.
C1_ResetSemantics ==
    \A f \in FrameIds :
        (Emitted(f) /\ afterSignal[f]) =>
            /\ lastEmit[f].st = WrappingAdd1(PrevEmittedSt(f))
            /\ lastEmit[f].sq = 0

\* C2: with no PLC ingestion pending at or begun since a frame's state-change
\* emission, its k-th following emission (k >= 1) carries the same stNum and
\* sqNum = k, and the wait before it had the timeout min(2^k, 5000) ms.
C2_BackoffSchedule ==
    \A f \in FrameIds :
        (~disturbed[f] /\ kSince[f] >= 1) =>
            /\ lastEmit[f].st = stAtChange[f]
            /\ lastEmit[f].sq = kSince[f]
            /\ waitBefore[f] = Min(Pow2(kSince[f]), MAX_INTERVAL_MS)

\* C2 witness: an undisturbed frame whose 13th retransmission waited the
\* capped 5000 ms (2^13 = 8192 would exceed the cap).
C2_Witness ==
    \E f \in FrameIds :
        ~disturbed[f] /\ kSince[f] = 13 /\ waitBefore[f] = MAX_INTERVAL_MS
        /\ lastEmit[f].sq = 13

\* C3: per frame, each emitted (stNum, sqNum) is lexicographically greater
\* than the one emitted before it, under every interleaving with PLC
\* ingestion.
C3_LexIncreasing ==
    \A f \in FrameIds :
        prevEmit[f] # NoEmit => LexLess(prevEmit[f], lastEmit[f])

\* C4: until signal_reset has been called the thread sends no frame and
\* leaves every frame's stNum and sqNum as initialised; and when the stop
\* flag was set before the first signal the thread never gets past the stop
\* test of the main loop, so it never emits.
C4_NothingBeforeFirstSignal ==
    /\ ~everSignalled =>
          /\ \A f \in FrameIds : ~Emitted(f) /\ frames[f].stNum = 0
                                 /\ frames[f].sqNum = 0
          /\ rt_pc \in {"s_check", "s_enter", "s_blocked", "done"}
    /\ stopBeforeSignal =>
          /\ \A f \in FrameIds : ~Emitted(f) /\ frames[f].stNum = 0
          /\ rt_pc \in {"s_check", "s_enter", "s_blocked", "l_check", "done"}

\* C4 witness: the stop flag was set first, a signal_reset then released the
\* startup wait, and the thread has exited without an emission.
C4_Witness ==
    /\ stopBeforeSignal /\ everSignalled /\ rt_pc = "done"
    /\ \A f \in FrameIds : ~Emitted(f)

\* C15: once the stop flag is set the thread completes at most one further
\* wait, whose timeout is at most 5000 ms (100 ms at startup), emits nothing
\* after a wait that completed with the flag set, and terminates.
C15_StopWithinOneWait ==
    /\ [](/\ waitsAfterStop <= 1
          /\ ~emitAfterStopWait
          /\ sleep_target_ms <= MAX_INTERVAL_MS
          /\ STARTUP_WAIT_MS <= MAX_INTERVAL_MS
          /\ (waitsAfterStop = 1 => rt_pc \in {"s_check", "l_check", "l_post", "done"}))
    /\ (stop_signal ~> rt_pc = "done")

\* C15 witness: the flag was set while the thread was in its 5000 ms wait;
\* that wait completed and the thread ended without another emission
C15_Witness ==
    /\ rt_pc = "done"
    /\ waitsAfterStop = 1
    /\ sleep_target_ms = MAX_INTERVAL_MS
    /\ \E f \in FrameIds : lastEmit[f].sq > 0

(***************************************************************************)
(* Claims about the PCS record (specification SpecPcs).                    *)
(***************************************************************************)
\* (stNum, sqNum) of a record or PDU, lexicographic order
SeqLess(a, b) == a.stNum < b.stNum \/ (a.stNum = b.stNum /\ a.sqNum < b.sqNum)

\* the step in which worker w applies the PDU it holds
Updates(w) == held[w] # NoPdu /\ held'[w] = NoPdu

\* the PDU fields a record stores
StoredPdu(rec) == <<rec.stNum, rec.sqNum, rec.timeAllowedtoLive>>

\* C5: with a sender that never restarts, every update_from_goose after the
\* first stores a (stNum, sqNum) strictly greater, lexicographically, than
\* the one stored before, whatever the order in which the workers deliver.
C5_StoredLexIncreasing ==
    [][\A w \in WorkerIds :
          (Updates(w) /\ pcs.last_update # NoTime) => SeqLess(pcs, pcs')]_vars

\* C7: an update whose PDU has the stored stNum and a smaller sqNum leaves
\* the stored PDU unchanged and makes state_valid false.
C7_SequenceErrorKeepsPdu ==
    [][\A w \in WorkerIds :
          (/\ Updates(w)
           /\ pcs.last_update # NoTime
           /\ held[w].stNum = pcs.stNum
           /\ held[w].sqNum < pcs.sqNum)
          => (StoredPdu(pcs') = StoredPdu(pcs) /\ ~pcs'.statevalid)]_vars

\* C8 as stated: a record last updated at t0 with time allowed to live TTL
\* has state_valid false at every time >= t0 + 2*TTL + 5000.
C8_FlagFalseAtDeadline ==
    (pcs.last_update # NoTime
     /\ now >= pcs.last_update + 2 * pcs.timeAllowedtoLive + GRACE_MS)
    => ~pcs.statevalid

\* C8 amended: for a record last updated at t0 with TTL > 0, at every time
\* >= t0 + 2*TTL + 5000 is_data_valid() is false whatever the sweeper has
\* done, and state_valid is false once a sweep has run at or after that time.
C8_InvalidAtDeadline ==
    (pcs.last_update # NoTime
     /\ pcs.timeAllowedtoLive > 0
     /\ now >= pcs.last_update + 2 * pcs.timeAllowedtoLive + GRACE_MS)
    => /\ ~is_data_valid(pcs, now)
       /\ sweptAfterDeadline => ~pcs.statevalid

\* C8 witness: the deadline of a record accepted with TTL > 0 has passed and
\* no sweep has run since, so the flag is still set
C8_Witness ==
    /\ pcs.timeAllowedtoLive > 0
    /\ validAtUpdate
    /\ now = pcs.last_update + 2 * pcs.timeAllowedtoLive + GRACE_MS
    /\ ~sweptAfterDeadline
    /\ pcs.statevalid

C10_DeadlineForEveryTtl ==
    [][\A w \in WorkerIds :
          (Updates(w) /\ validate_goose_sequence(pcs, held[w]))
          => /\ pcs'.last_update = now
             /\ pcs'.invaliditytime = now + 2 * held[w].timeAllowedtoLive + GRACE_MS
             /\ pcs'.statevalid]_vars

\* C10 amended: such an update leaves last_update = time of the update and
\* state_valid true; invaliditytime = that time + 2*TTL + 5000 when TTL > 0,
\* and keeps its previous value (unset on a new record) when TTL = 0.
C10_DeadlineWhenTtlPositive ==
    [][\A w \in WorkerIds :
          (Updates(w) /\ validate_goose_sequence(pcs, held[w]))
          => /\ pcs'.last_update = now
             /\ pcs'.statevalid
             /\ held[w].timeAllowedtoLive > 0 =>
                   pcs'.invaliditytime = now + 2 * held[w].timeAllowedtoLive + GRACE_MS
             /\ held[w].timeAllowedtoLive = 0 =>
                   pcs'.invaliditytime = pcs.invaliditytime]_vars

\* C10 witness: a PDU with TTL = 0 was accepted after the clock moved past
\* the deadline an earlier PDU had set, which is still the record's deadline
C10_Witness ==
    /\ pcs.last_update = now
    /\ pcs.statevalid
    /\ pcs.timeAllowedtoLive = 0
    /\ pcs.invaliditytime # NoTime
    /\ pcs.invaliditytime < now

(***************************************************************************)
(* Claims about the PMS command worker (specification SpecPms).            *)
(***************************************************************************)
\* C6: a frame whose APPID has a subscriber entry replaces the stored PDU
\* and last_update_time iff st1 > st0, or st1 = st0 and sq1 > sq0, or the
\* confRev differs, or st0 > 100 and st1 < st0 and st0 - st1 > 100;
\* otherwise the entry is unchanged.
C6_ReplacedIffNewer ==
    (pms_last # NoRx /\ pms_last.appid \in DOMAIN pms_subscribers) =>
        LET e0 == pms_last.before
            e1 == pms_subscribers[pms_last.appid]
            st0 == e0.goosepdu.stNum
            sq0 == e0.goosepdu.sqNum
            st1 == pms_last.rx.stNum
            sq1 == pms_last.rx.sqNum
        IN  IF \/ st1 > st0
               \/ (st1 = st0 /\ sq1 > sq0)
               \/ pms_last.rx.confRev # e0.goosepdu.confRev
               \/ (st0 > 100 /\ st1 < st0 /\ st0 - st1 > 100)
            THEN e1.goosepdu = pms_last.rx /\ e1.last_update_time = pms_last.at
            ELSE e1 = e0

\* C6 witness: a frame 101 states below the stored stNum replaced the entry
\* as a sender restart
C6_Witness ==
    /\ pms_last # NoRx
    /\ pms_last.appid \in DOMAIN pms_subscribers
    /\ pms_last.before.goosepdu.stNum - pms_last.rx.stNum = RESTART_THRESHOLD + 1
    /\ pms_last.before.goosepdu.confRev = pms_last.rx.confRev
    /\ pms_subscribers[pms_last.appid].goosepdu = pms_last.rx
    /\ pms_subscribers[pms_last.appid].last_update_time = pms_last.at

(***************************************************************************)
(* Claims about the buffer pool (specification SpecPool).                  *)
(***************************************************************************)
\* slots holding a live handle (one being dropped is live until its drop ends)
LiveSlots(h) == {s \in SlotIds : h[s].pc # "none"}

\* the buffers in the queue and in live handles, as a sequence of identities
QueueIds == {queue[i].id : i \in 1..Len(queue)}

\* C11: buffers in the pool + live handles = N, no buffer is in two places
\* (two handles, or a handle and the pool, or twice in the pool), the pool
\* never holds more than N, and with every handle dropped it holds N again.
C11_PoolConservation ==
    /\ Len(queue) + Cardinality(LiveSlots(handles)) = PoolCapacity
    /\ Len(queue) <= PoolCapacity
    /\ \A s, t \in LiveSlots(handles) :
          s # t => handles[s].buffer.id # handles[t].buffer.id
    /\ \A s \in LiveSlots(handles) : handles[s].buffer.id \notin QueueIds
    /\ Cardinality(QueueIds) = Len(queue)
    /\ LiveSlots(handles) = {} => Len(queue) = PoolCapacity

\* C11 witness: every handle has been dropped after both buffers were out,
\* and the pool is full again (in the order the buffers came back)
C11_Witness ==
    /\ LiveSlots(handles) = {}
    /\ Len(queue) = PoolCapacity
    /\ queue[1].id # 1
    /\ written = BufferIds

\* C12: acquire() returns None exactly when all N buffers are on loan, a
\* handle otherwise; a failed acquire changes neither pool nor handles.
C12_NoneIffExhausted ==
    /\ acq.res = "none" =>
          /\ Cardinality(LiveSlots(acq.handles)) = PoolCapacity
          /\ queue = acq.queue
          /\ handles = acq.handles
    /\ acq.res = "some" =>
          /\ Cardinality(LiveSlots(acq.handles)) < PoolCapacity
          /\ handles[acq.slot].pc = "held"
          /\ \A s \in SlotIds \ {acq.slot} : handles[s] = acq.handles[s]

\* C12 witness: an acquire failed while one of the N buffers on loan was in
\* the middle of its drop
C12_Witness ==
    /\ acq.res = "none"
    /\ \E s \in SlotIds : handles[s].pc = "dropping"
    /\ \E s \in SlotIds : handles[s].pc = "held"

\* C13: a handle returned by acquire() has logical length 0, whatever was
\* written into its buffer before.
C13_AcquiredEmpty ==
    acq.res = "some" => handles[acq.slot].buffer.len = 0

\* C13 witness: a buffer that a borrower had written data into is acquired
\* again
C13_Witness ==
    /\ acq.res = "some"
    /\ handles[acq.slot].buffer.id \in written
    /\ handles[acq.slot].buffer.len = 0

(***************************************************************************)
(* Claims about RetransmitSignal on its own (specification SpecSig).       *)
(***************************************************************************)
\* the step in which a wait_timeout call returns: after the condvar, or at
\* once because the flag was already raised
WaitReturns ==
    \/ (waiter_pc = "woken" /\ waiter_pc' = "idle")
    \/ (waiter_pc = "idle" /\ waiter_pc' = "idle" /\ nCalls' = nCalls + 1 /\ ~sig_flag')

\* C14: wait_timeout returns true iff a signal_reset occurred that no
\* earlier wait consumed, clearing the flag; it returns false only when the
\* whole timeout has elapsed with no signal; no signal is lost.
C14_WaitTimeoutContract ==
    [][WaitReturns =>
          /\ wait_result' = unconsumed
          /\ wait_result' => ~sig_flag'
          /\ ~wait_result' => wait_left = 0]_vars

\* C14, the part that holds: the result is true iff a signal is unconsumed,
\* the flag is cleared on true, and an unconsumed signal keeps the flag up
C14_NoSignalLost ==
    [][/\ WaitReturns => (wait_result' = unconsumed /\ (wait_result' => ~sig_flag'))
       /\ unconsumed' => sig_flag']_vars

(***************************************************************************)
(* Claims about run() (specification SpecMain).                            *)
(***************************************************************************)
\* C16: once the main thread has left park and dropped its sender, every
\* spawned thread ends, every join returns and run() returns.
C16_ShutdownCompletes ==
    (main_pc = "joining") ~>
        /\ main_pc = "returned"
        /\ val_pc = "done"
        /\ pub_pc = "done"
        /\ \A w \in WorkerIds : wk_pc[w] = "done"
        /\ \A l \in LanIds : rcv_pc[l] = "done"

(***************************************************************************)
(* Claim about the shared publisher frames (specification Spec).           *)
(***************************************************************************)
\* C20: in every publisher frame numDatSetEntries equals the length of
\* allData, after initialisation and after any PLC datagram was assigned.
C20_EntriesMatchAllData ==
    \A f \in FrameIds : frames[f].numDatSetEntries = frames[f].allDataLen

(***************************************************************************)
(* Claims about spawn_publisher_thread and the GOOSE sender thread         *)
(* (specification SpecPub).                                                *)
(***************************************************************************)
\* this step emits a frame for PCS p
Emits(p) == goose_frames'[p].last_send # goose_frames[p].last_send

\* C17: when the record of a PCS was updated since the last frame of that
\* PCS, the next frame emitted for it has stNum one higher, sqNum 0, and its
\* retransmission interval is back at 2 ms, whenever the update arrived.
C17_UpdateStartsNewState ==
    [][\A p \in PcsIds :
          (Emits(p) /\ pendingUpd[p]) =>
              /\ goose_frames'[p].stNum = WrappingAdd1(goose_frames[p].stNum)
              /\ goose_frames'[p].sqNum = 0
              /\ goose_frames'[p].current_interval_ms = INITIAL_INTERVAL_MS]_vars

\* C18: while the record of a PCS has never been updated, no frame has been
\* emitted for it on a LAN.
C18_NothingBeforeFirstUpdate ==
    \A p \in PcsIds :
        (rec_last_update[p] = NoTime /\ \E l \in LanIds : tx_present[l])
            => goose_frames[p].last_send = NoTime

\* C19: for a frame that was due in spawn_publisher_thread and for a frame
\* the GOOSE sender received, a send was attempted on exactly the LANs whose
\* transmitter is present, whatever the other LAN answered; every frame that
\* is due in a pass is emitted in it, and a received frame leaves the sender
\* in its receive loop.
C19_IndependentSends ==
    /\ [](/\ lan_log.due => \A l \in LanIds : (lan_log.out[l] # "absent") = tx_present[l]
          /\ gs_log.got => \A l \in LanIds : (gs_log.out[l] # "absent") = tx_present[l])
    /\ [][/\ (pb_pc = "process" /\ pb_pc' = "wait") =>
                 \A p \in PcsIds :
                     FrameDue(goose_frames[p], rec_last_update[p], stamp + 1, pub_now)
                         => Emits(p)
          /\ (gs_pc = "recv" /\ gs_log' # gs_log) => gs_pc' = "recv"]_vars

\* a frame was due with LAN1 present and failing and LAN2 sent, and the
\* sender received a frame with LAN2 present and failing and LAN1 sent
C19_Witness ==
    /\ lan_log.due /\ lan_log.out[1] = "err" /\ lan_log.out[2] = "ok"
    /\ gs_log.got /\ gs_log.out[1] = "ok" /\ gs_log.out[2] = "none"

CmdsBefore(f) ==
    LET RECURSIVE Sum(_)
        Sum(g) == IF g = 0 THEN 0 ELSE plc_configs[g].number_of_pcs + Sum(g - 1)
    IN  Sum(f - 1)

\* C22: assign_to_goose_frame fills a frame that covers N PCS, from a
\* datagram that holds the commands for it, with N pairs of booleans, pair i
\* being (true,false) for cmd_protocol 10, (false,true) for 20, (true,true)
\* for 30 and (false,false) otherwise, followed by N pairs of float32
\* (active, reactive) of the same commands; consecutive frames take
\* consecutive commands.
C22_AllDataLayout ==
    ing_pc = "assigned" =>
        \A f \in 1..Len(plc_frames) :
            LET N == plc_configs[f].number_of_pcs
                first == CmdsBefore(f)
                cmds == plc_result.pcs_cmds
                all == plc_frames[f].allData
            IN  first + N <= Len(cmds) =>
                    /\ Len(all) = 4 * N
                    /\ \A i \in 1..N :
                          LET c == cmds[first + i]
                          IN  /\ all[2 * i - 1] =
                                     [type |-> "boolean", v |-> c.protocol \in {10, 30}]
                              /\ all[2 * i] =
                                     [type |-> "boolean", v |-> c.protocol \in {20, 30}]
                              /\ all[2 * N + 2 * i - 1] =
                                     [type |-> "float32", v |-> c.pcs_active_power]
                              /\ all[2 * N + 2 * i] =
                                     [type |-> "float32", v |-> c.pcs_reactive_power]

\* two frames of one PCS each were filled from a datagram of two commands,
\* the second command with protocol 20 and active power 1.0
C22_Witness ==
    /\ ing_pc = "assigned"
    /\ Len(plc_frames) = 2
    /\ Len(plc_result.pcs_cmds) = 2
    /\ plc_result.pcs_cmds[1].protocol = 30
    /\ plc_result.pcs_cmds[2].protocol = 20
    /\ plc_result.pcs_cmds[1].pcs_active_power = 0
    /\ plc_result.pcs_cmds[2].pcs_active_power = 1065353216
    /\ Len(plc_frames[2].allData) = 4

\* C27: init_publisher_goose_frames returns Err for an empty list and for a
\* list with a config that has an unparseable source or destination MAC,
\* APPID 0, number_of_pcs 0 or an empty gocbRef, datSet or goID, and then
\* returns no frame; otherwise it returns one frame per config, in config
\* order, with stNum = 0 and sqNum = 0.
C27_InitAllOrNothing ==
    ing_pc # "start" =>
        LET bad(c) == \/ ~parse_mac(c.src_addr).ok
                      \/ ~parse_mac(c.dst_addr).ok
                      \/ c.appid = 0
                      \/ c.number_of_pcs = 0
                      \/ c.gocb_ref = ""
                      \/ c.dat_set = ""
                      \/ c.goose_id = ""
            refused == \/ Len(plc_configs) = 0
                       \/ \E i \in 1..Len(plc_configs) : bad(plc_configs[i])
        IN  /\ plc_init.ok = ~refused
            /\ refused => plc_init.frames = <<>>
            /\ ~refused =>
                   /\ Len(plc_init.frames) = Len(plc_configs)
                   /\ \A i \in 1..Len(plc_configs) :
                         /\ plc_init.frames[i].srcAddr = parse_mac(plc_configs[i].src_addr).mac
                         /\ plc_init.frames[i].goID = plc_configs[i].goose_id
                         /\ Len(plc_init.frames[i].allData) = 4 * plc_configs[i].number_of_pcs
                         /\ plc_init.frames[i].stNum = 0
                         /\ plc_init.frames[i].sqNum = 0

\* a list whose first config is valid and whose second has APPID 0 was refused
C27_WitnessRefused ==
    /\ ing_pc = "inited"
    /\ Len(plc_configs) = 2
    /\ ConfigValid(plc_configs[1])
    /\ plc_configs[2].appid = 0
    /\ ~plc_init.ok

\* C28: the frame built for a valid config with number_of_pcs = N has
\* numDatSetEntries = N and an allData of 4N entries: 2N booleans false
\* followed by 2N float32 0.0.
C28_InitialAllData ==
    (ing_pc = "inited" /\ plc_init.ok) =>
        \A i \in 1..Len(plc_configs) :
            LET N == plc_configs[i].number_of_pcs
                fr == plc_init.frames[i]
            IN  /\ fr.numDatSetEntries = N
                /\ Len(fr.allData) = 4 * N
                /\ \A k \in 1..(2 * N) : fr.allData[k] = [type |-> "boolean", v |-> FALSE]
                /\ \A k \in (2 * N + 1)..(4 * N) : fr.allData[k] = [type |-> "float32", v |-> 0]

(***************************************************************************)
(* Claims about command extraction (specification SpecExt).                *)
(***************************************************************************)
\* the stored allData has 2N booleans followed by 2N floats
ExpectedTypes(all, N) ==
    /\ Len(all) >= 4 * N
    /\ \A k \in 1..(2 * N) : all[k].type = "boolean"
    /\ \A k \in (2 * N + 1)..(4 * N) : all[k].type = "float32"

\* C23: extract_and_apply_commands(i, N) on a record whose allData has at
\* least 4N entries of the expected types sets the active enable to
\* allData[2i], the reactive enable to allData[2i+1], the active feedback to
\* allData[2N+2i] if the active enable is true and 0.0 otherwise, and the
\* reactive feedback to allData[2N+2i+1] likewise; with fewer than 4N
\* entries it returns Err and changes no field.
C23_ExtractApplies ==
    ext_pc = "applied" =>
        LET i == ext_call.pcs_index
            N == ext_call.total_pcs_count
            all == ext_rec.allData
        IN  /\ (i < N /\ ExpectedTypes(all, N)) =>
                   /\ ext_call.ok
                   /\ ext_rec.active_power_enable = all[2 * i + 1].v
                   /\ ext_rec.reactive_power_enable = all[2 * i + 2].v
                   /\ ext_rec.active_power_feedback =
                          (IF all[2 * i + 1].v THEN all[2 * N + 2 * i + 1].v ELSE 0)
                   /\ ext_rec.reactive_power_feedback =
                          (IF all[2 * i + 2].v THEN all[2 * N + 2 * i + 2].v ELSE 0)
            /\ Len(all) < 4 * N => (~ext_call.ok /\ ext_rec = ext_call.before)

\* the second PCS of a frame for two was extracted with its active enable
\* true and its reactive enable false, over a record that held other values
C23_Witness ==
    /\ ext_pc = "applied"
    /\ ext_call.pcs_index = 1
    /\ ext_call.total_pcs_count = 2
    /\ ExpectedTypes(ext_rec.allData, 2)
    /\ ext_rec.active_power_enable
    /\ ~ext_rec.reactive_power_enable
    /\ ext_rec.active_power_feedback = 17
    /\ ext_call.before.reactive_power_enable

\* the commanded positions of PCS i of N whose entry has the wrong type
Mistyped(all, i, N) ==
    {f \in {"active_power_enable", "reactive_power_enable",
            "active_power_feedback", "reactive_power_feedback"} :
        \/ f = "active_power_enable" /\ all[2 * i + 1].type # "boolean"
        \/ f = "reactive_power_enable" /\ all[2 * i + 2].type # "boolean"
        \/ f = "active_power_feedback" /\ all[2 * N + 2 * i + 1].type # "float32"
        \/ f = "reactive_power_feedback" /\ all[2 * N + 2 * i + 2].type # "float32"}

\* C24: when an allData entry at a commanded position has the wrong type,
\* the extraction marks that field invalid, still applies the correctly
\* typed fields, and is not aborted.
C24_MismatchFlagged ==
    ext_pc = "applied" =>
        LET i == ext_call.pcs_index
            N == ext_call.total_pcs_count
            all == ext_rec.allData
        IN  (i < N /\ Len(all) >= 4 * N) =>
                /\ ext_call.ok
                /\ Mistyped(all, i, N) \subseteq InvalidFlags(ext_rec)
                /\ "active_power_enable" \notin Mistyped(all, i, N) =>
                       ext_rec.active_power_enable = all[2 * i + 1].v
                /\ "reactive_power_enable" \notin Mistyped(all, i, N) =>
                       ext_rec.reactive_power_enable = all[2 * i + 2].v

(***************************************************************************)
(* Claims about the PLC image lifecounter (specification SpecLc).          *)
(***************************************************************************)
\* C25: every image is stamped by one atomic take-and-increment: no two
\* images carry the same lifecounter, the counter has advanced by exactly
\* one per image, and an image whose call began after another image was
\* completed carries a strictly greater lifecounter.
C25_LifecounterDistinct ==
    /\ LIFECOUNTER = Len(lc_images)
    /\ \A j, k \in 1..Len(lc_images) :
        /\ j # k => lc_images[j].lifecounter # lc_images[k].lifecounter
        /\ k <= lc_images[j].started =>
               lc_images[j].lifecounter > lc_images[k].lifecounter

\* two callers were inside get_stpcsimage at the same time and both
\* produced an image, and a third image was produced by a later call
C25_Witness ==
    /\ Len(lc_images) >= 3
    /\ lc_images[1].caller # lc_images[2].caller
    /\ lc_images[1].started = 0
    /\ lc_images[2].started = 0
    /\ lc_images[3].started = 2

(***************************************************************************)
(* Claims about the nameplate loader (specification SpecNm).               *)
(***************************************************************************)
\* the row has a non-zero logical_id, a non-zero goose_appid and a
\* non-empty pcs_type
RowValid(row) ==
    /\ row.logical_id # None /\ row.logical_id[1] # 0
    /\ row.goose_appid # None
    /\ parse_hex_u16(row.goose_appid[1]).ok
    /\ parse_hex_u16(row.goose_appid[1]).v # 0
    /\ row.pcs_type # None /\ Trim(row.pcs_type[1]) # <<>>

\* the two rows have the same logical_id or the same goose_appid
RowsShare(a, b) ==
    \/ a.logical_id = b.logical_id
    \/ parse_hex_u16(a.goose_appid[1]).v = parse_hex_u16(b.goose_appid[1]).v

Places(b) ==
    Cardinality({i \in 1..Len(igr_pool) : igr_pool[i].id = b})
    + Cardinality({i \in 1..Len(igr_chan) : igr_chan[i].data.id = b})
    + Cardinality({l \in LanIds : igr_rcv[l].buffer.id = b})
    + Cardinality({w \in WorkerIds : igr_wk[w].buffer.id = b})

\* C29: every pooled buffer is in exactly one place (the pool, the channel,
\* one receiver or one worker); a packet that is not GOOSE takes no buffer;
\* a packet that arrives while the pool is empty is dropped; a refused
\* try_send leaves the channel as it was and the buffer goes back to the
\* pool; a receiver waiting for a packet and a worker waiting for a message
\* hold no buffer; and a receiver that holds a buffer can always take its
\* next step, whatever the pool and the channel hold.
C29_BufferInOnePlace ==
    /\ \A b \in BufferIds : Places(b) = 1
    /\ igr_last.kind = "filtered" => (igr_pool = igr_last.pool /\ igr_chan = igr_last.chan)
    /\ igr_last.kind = "pool_empty" =>
           (igr_last.pool = <<>> /\ igr_pool = <<>> /\ igr_chan = igr_last.chan)
    /\ igr_last.kind = "full" => igr_chan = igr_last.chan
    /\ igr_last.kind = "returned" => Len(igr_pool) = Len(igr_last.pool) + 1
    /\ igr_last.kind = "processed" => Len(igr_pool) = Len(igr_last.pool) + 1
    /\ \A l \in LanIds :
        /\ igr_rcv[l].pc = "next" => igr_rcv[l].buffer = NoBuffer
        /\ igr_rcv[l].pc = "next" => ENABLED IgrPacket(l)
        /\ igr_rcv[l].pc = "acquired" => ENABLED IgrSend(l)
        /\ igr_rcv[l].pc = "dropping" => ENABLED IgrReturn(l)
    /\ \A w \in WorkerIds : igr_wk[w].pc = "recv" => igr_wk[w].buffer = NoBuffer

\* the channel was full, a receiver's message was refused and its buffer is
\* back in the pool
C29_Witness ==
    /\ igr_last.kind = "returned"
    /\ Len(igr_chan) = IngressChanCap
    /\ igr_pool # <<>>

(***************************************************************************)
(* Claims about command frames and the update signal (specification        *)
(* SpecCmd).                                                               *)
(***************************************************************************)
\* C30: whenever a worker has accepted a command frame and the extraction
\* has changed the PCS record, the reset signal is raised when the worker
\* is done with the frame.
C30_ChangeRaisesSignal ==
    (cmd_last.kind = "frame" /\ cmd_last.accepted /\ cmd_last.changed) => cmd_signal

(***************************************************************************)
(* Claims about the two LAN stores (specification SpecLan).                *)
(***************************************************************************)
\* C31: after a worker has accepted a command frame received on one LAN,
\* the records of the PCS in the two LAN stores hold the same enable flags
\* and the same feedback values.
C31_BothLanRecordsAgree ==
    lan_last.accepted => CommandFields(lan_rec[1]) = CommandFields(lan_rec[2])

(***************************************************************************)
(* Claims about the backoff and timeAllowedtoLive (specification SpecTtl). *)
(***************************************************************************)
\* C32: every frame emitted by the retransmit thread or by the publisher
\* thread carries a timeAllowedtoLive that is at least the interval
\* scheduled until its next retransmission.
C32_TtlCoversNextInterval ==
    ttl_emit.by # "none" => ttl_emit.timeAllowedtoLive >= ttl_emit.next_interval_ms

\* both schedulers have backed off to the largest interval and the
\* publisher has just emitted a frame
C32_Witness ==
    /\ ttl_emit.by = "publisher"
    /\ ttl_emit.next_interval_ms = MAX_INTERVAL_MS
    /\ ttl_rt = MAX_INTERVAL_MS

(***************************************************************************)
(* Claims about the frames lock and the hand-off (specification SpecHd).   *)
(***************************************************************************)
\* C33: the retransmit thread never hands a frame to the channel while it
\* holds the frames write lock, so the PLC ingester is never waiting for
\* the lock while the retransmit thread, holding it, waits for a stalled
\* sender to make room in the channel.
C33_NoHandoffUnderLock ==
    /\ hd_last.kind = "send" => ~hd_last.lock_held
    /\ ~(/\ hd_plc = "waiting"
         /\ hd_lock = "retransmit"
         /\ hd_chan = HandChanCap
         /\ hd_sender = "stalled")

(***************************************************************************)
(* Claims about the poisoned frames lock (specification SpecPsn).          *)
(***************************************************************************)
\* C34: a tick that finds the frames lock poisoned leaves every frame with
\* the stNum and sqNum the tick over a sound lock gives it from the same
\* state, hands the same encoded frames to the sender, ends with Ok and
\* leaves the interval the sound tick leaves.
C34_PoisonedTickSame ==
    (psn_last.ticked /\ psn_last.poisoned) =>
        /\ \A f \in FrameIds :
            /\ psn_frames[f] = TickFrame(psn_last.frames[f], psn_last.by_new_data)
            /\ psn_last.sent[f] = Encoded(TickFrame(psn_last.frames[f], psn_last.by_new_data))
        /\ psn_last.result = "ok"
        /\ psn_interval = (IF psn_last.by_new_data THEN INITIAL_INTERVAL_MS
                           ELSE NextInterval(psn_last.interval))

\* new data ended the wait of a tick over the poisoned lock, after
\* retransmissions had raised sqNum
C34_Witness ==
    /\ psn_last.ticked
    /\ psn_last.poisoned
    /\ psn_last.by_new_data
    /\ psn_last.frames[1].sqNum > 0

(***************************************************************************)
(* Claims about get_info.                                                  *)
(***************************************************************************)
\* C35: after get_info with a configuration for the PCS type, each of the
\* seven scalar fields holds the float32 found at its own configured
\* position of allData, when that position exists and holds a float32, and
\* 999999.0 otherwise, whatever the positions and the entries of the other
\* fields are.
C35_FieldsIndependent ==
    (gi_in.called /\ gi_in.found) =>
        \A f \in ScalarFields :
            LET pos == gi_in.config[f] IN
            gi_info[f] = IF pos < Len(gi_sub.alldata) /\ gi_sub.alldata[pos + 1].type = "float32"
                         THEN gi_sub.alldata[pos + 1].v
                         ELSE 999999

\* one field out of range, one of the wrong type, one sound
C35_Witness ==
    /\ gi_in.called /\ gi_in.found
    /\ gi_info.pcs_realtime_active_power = 999999
    /\ gi_in.config.pcs_realtime_active_power >= Len(gi_sub.alldata)
    /\ gi_info.pcs_soc = 999999
    /\ gi_in.config.pcs_soc < Len(gi_sub.alldata)
    /\ gi_info.pcs_realtime_reactive_power = 11
    /\ gi_info.pcs_maximum_charging_power = 11

C37_InOrderUnderAnySchedule ==
    /\ [][\A w \in WorkerIds : Updates(w) => pcs'.statevalid]_vars
    /\ []((nSent > 0 /\ \A w \in WorkerIds : held[w] = NoPdu)
             => (pcs.stNum = sndSt /\ pcs.sqNum = sndSq))

\* C39: a step that is no update_from_goose (a validity check among them)
\* leaves every field of the record but state_valid as it was and never
\* turns state_valid from false to true; state_valid turns true only in an
\* update_from_goose whose PDU passes validate_goose_sequence.
C39_ValidityCheckOnlyClears ==
    [][/\ (\A w \in WorkerIds : ~Updates(w))
            => /\ [pcs' EXCEPT !.statevalid = pcs.statevalid] = pcs
               /\ pcs'.statevalid => pcs.statevalid
       /\ (~pcs.statevalid /\ pcs'.statevalid)
            => \E w \in WorkerIds :
                  Updates(w) /\ validate_goose_sequence(pcs, held[w])]_vars

\* a validity check has just cleared the flag of a record whose deadline
\* has passed, and left its stored PDU and times
C39_Witness ==
    /\ became_invalid
    /\ ~pcs.statevalid
    /\ pcs.invaliditytime # NoTime
    /\ now >= pcs.invaliditytime
    /\ pcs.last_update # NoTime
    /\ reports = 1

C38_ChannelNeverFull ==
    /\ Len(dq_chan) <= PoolCapacity
    /\ \A i, j \in 1..Len(dq_chan) : i # j => dq_chan[i].data.id # dq_chan[j].data.id
    /\ Len(dq_chan) < DispatchChanCap
    /\ dq_last.kind # "full"

\* every buffer of the pool is in a queued packet and a further GOOSE
\* packet has just been dropped for want of a buffer
C38_Witness ==
    /\ dq_last.kind = "pool_empty"
    /\ dq_last.chan = PoolCapacity
    /\ Len(dq_chan) = PoolCapacity

=============================================================================
